---- MODULE Spec2Model ----
(***************************************************************************)
(* HDCTranslator: the XML document store (core/xml_handler.py) and the     *)
(* main window operations that drive it (ui/main_window.py).               *)
(*                                                                         *)
(* A Python str is a sequence of characters; a character is a one-element  *)
(* TLA+ string, a CJK character is written by its pinyin name.  Python     *)
(* None is the empty sequence None and a present value x is Some(x).       *)
(* Python list positions are 0-based; the model's are 1-based, and the     *)
(* operators that expose a Python index (root.index, list.insert) convert. *)
(***************************************************************************)
EXTENDS Integers, Sequences, FiniteSets, TLC

VARIABLES
    files,                \* the file system: path -> file content
    file_path,            \* XMLHandler.file_path
    xml_tree,             \* XMLHandler.xml_tree
    language,             \* XMLHandler.language
    translated_name,      \* XMLHandler.translated_name
    no_whitespace,        \* XMLHandler.no_whitespace
    translation_entries,  \* XMLHandler.translation_entries
    entry_types,          \* XMLHandler.entry_types
    id_to_entry_index,    \* XMLHandler._id_to_entry_index
    type_to_entries,      \* XMLHandler._type_to_entries
    last_filter_result,   \* XMLHandler._last_filter_result
    last_filter_params,   \* XMLHandler._last_filter_params
    last,                 \* the last call: operation, arguments, return value
    translation_table,    \* MainWindow.translation_table: the rows shown
    is_translating,       \* MainWindow.is_translating
    translation_queue,    \* MainWindow.translation_queue
    pending,              \* the queue item (row, text) whose translate call is in flight
    search_edit,          \* MainWindow.search_edit.text()
    category_combo,       \* MainWindow.category_combo.currentText()
    translated_only_check,    \* MainWindow.translated_only_check.isChecked()
    untranslated_only_check,  \* MainWindow.untranslated_only_check.isChecked()
    stats,                \* what update_translation_stats last reported
    chart,                \* the last progress_chart.set_progress(translated, total)
    saves,                \* the number of save_xml calls made so far
    loaded,               \* history: the tree the last successful load_file parsed
    since_load,           \* history: what was called since that load_file
    api_type,             \* the translator's backend: TranslatorManager.api_type
    api_key,              \* the translator's api_key
    placeholders,         \* TranslatorManager.placeholders: marker -> token
    call,                 \* the last translator call and what it did
    run                   \* history: the queue run in progress, its calls and its stack

store == <<file_path, xml_tree, language, translated_name, no_whitespace,
           translation_entries, entry_types, id_to_entry_index,
           type_to_entries, last_filter_result, last_filter_params>>

ui == <<translation_table, is_translating, translation_queue, pending,
        search_edit, category_combo, translated_only_check,
        untranslated_only_check, stats, chart>>

hist == <<saves, loaded, since_load>>

api == <<api_type, api_key, placeholders, call>>

vars == <<files, store, last, ui, hist, api, run>>

---------------------------------------------------------------------------
(* Python values                                                           *)

None == <<>>

Some(x) == <<x>>

\* Python truthiness of an optional str: None and "" are both falsy
Truthy(opt) == opt # None /\ opt[1] # <<>>

UpperAlpha == <<"A","B","C","D","E","F","G","H","I","J","K","L","M",
                "N","O","P","Q","R","S","T","U","V","W","X","Y","Z">>

LowerAlpha == <<"a","b","c","d","e","f","g","h","i","j","k","l","m",
                "n","o","p","q","r","s","t","u","v","w","x","y","z">>

LowerMap ==
    [c \in {UpperAlpha[i] : i \in 1..Len(UpperAlpha)} |->
        LowerAlpha[CHOOSE i \in 1..Len(UpperAlpha) : UpperAlpha[i] = c]]

LowerChar(c) == IF c \in DOMAIN LowerMap THEN LowerMap[c] ELSE c

\* str.lower()
lower(s) == [i \in 1..Len(s) |-> LowerChar(s[i])]

IsSpace(c) == c \in {" ", "\t", "\n", "\r"}

RECURSIVE lstrip(_)
lstrip(s) == IF s # <<>> /\ IsSpace(Head(s)) THEN lstrip(Tail(s)) ELSE s

RECURSIVE rstrip(_)
rstrip(s) ==
    IF s # <<>> /\ IsSpace(s[Len(s)]) THEN rstrip(SubSeq(s, 1, Len(s) - 1)) ELSE s

\* str.strip()
strip(s) == rstrip(lstrip(s))

\* s.startswith(p)
startswith(s, p) == Len(p) <= Len(s) /\ SubSeq(s, 1, Len(p)) = p

\* sub in s
contains(sub, s) ==
    \E i \in 0..(Len(s) - Len(sub)) : SubSeq(s, i + 1, i + Len(sub)) = sub

\* the marked-as-translated prefix "[已标记]"
Sentinel == <<"[", "yi3", "biao1", "ji4", "]">>

---------------------------------------------------------------------------
(* Documents.  A tree is a root tag, the root's attributes and the root's  *)
(* children; a child is an element (tag, text) or a comment.  element.text *)
(* is None or Some(str), as in lxml.                                        *)

Elem(tag, text) == [kind |-> "elem", tag |-> tag, text |-> text]

Comment(text) == [kind |-> "comment", tag |-> <<>>, text |-> Some(text)]

IsComment(node) == node.kind = "comment"

\* element.tag of a processing instruction: not a str but the factory function
\* etree.ProcessingInstruction
PITag == <<"etree.ProcessingInstruction">>

\* a processing instruction <?target text?> among the root's children
PI(text) == [kind |-> "pi", tag |-> PITag, text |-> Some(text)]

\* dict.get(key, default) on the root's attributes
AttrGet(attrib, key, default) ==
    IF attrib[key] = None THEN default ELSE attrib[key][1]

\* the parser: a leaf written as <a></a> or <a/> has text None
ParseNode(node) ==
    IF ~IsComment(node) /\ node.text = Some(<<>>)
    THEN [node EXCEPT !.text = None] ELSE node

\* etree.fromstring(content, parser).getroottree()
Parse(doc) ==
    [tag |-> doc.tag, attrib |-> doc.attrib,
     children |-> [i \in 1..Len(doc.children) |-> ParseNode(doc.children[i])]]

\* new_tree.write(...): the document the serializer puts in the file
Serialize(tree) == [tag |-> tree.tag, attrib |-> tree.attrib, children |-> tree.children]

Absent == [kind |-> "absent", doc |-> <<>>]

Malformed == [kind |-> "malformed", doc |-> <<>>]

XmlFile(doc) == [kind |-> "xml", doc |-> Some(doc)]

---------------------------------------------------------------------------
(* XMLHandler                                                              *)

EmptyDict == <<>>

\* dict[key] = value
DictSet(d, key, value) ==
    [k \in (DOMAIN d) \cup {key} |-> IF k = key THEN value ELSE d[k]]

\* the call record: operation, arguments, return value, error_occurred emitted
Call(op, path, id, ret, err) ==
    [op |-> op, path |-> path, id |-> id, ret |-> ret, err |-> err]

\* extract_translation_entries, the loop over the root's children
RECURSIVE ExtractLoop(_, _, _)
ExtractLoop(children, i, acc) ==
    IF i > Len(children) THEN acc
    ELSE LET element == children[i] IN
         IF IsComment(element) THEN ExtractLoop(children, i + 1, acc)
         ELSE LET tag == element.tag
                  original_text == IF Truthy(element.text) THEN element.text[1] ELSE <<>>
                  entry == [type |-> tag, id |-> tag,
                            original |-> original_text, translation |-> original_text]
                  entries == Append(acc.entries, entry)
                  sofar == IF tag \in DOMAIN acc.tindex THEN acc.tindex[tag] ELSE <<>>
              IN ExtractLoop(children, i + 1,
                     [entries |-> entries,
                      types |-> acc.types \cup {tag},
                      tindex |-> DictSet(acc.tindex, tag, Append(sofar, Len(entries)))])

\* normalize_entry_ids: the id is the tag; a later entry overwrites the index.
\* '.' in tag raises TypeError when the tag is not a str, after the entry was
\* put in the index
RECURSIVE NormalizeLoop(_, _, _)
NormalizeLoop(entries, i, index) ==
    IF i > Len(entries) THEN [entries |-> entries, index |-> index, raised |-> FALSE]
    ELSE LET entry_id == entries[i].type
             normal == [entries EXCEPT ![i].id = entry_id]
             indexed == DictSet(index, entry_id, i)
         IN IF entry_id = PITag
            THEN [entries |-> normal, index |-> indexed, raised |-> TRUE]
            ELSE NormalizeLoop(normal, i + 1, indexed)

normalize_entry_ids(entries) == NormalizeLoop(entries, 1, EmptyDict)

\* extract_translation_entries without the reset of its first lines
extract_keeping_entries(root) ==
    LET walked == ExtractLoop(root.children, 1,
                      [entries |-> translation_entries, types |-> entry_types,
                       tindex |-> type_to_entries])
        normal == normalize_entry_ids(walked.entries)
    IN [entries |-> normal.entries, types |-> walked.types,
        tindex |-> walked.tindex, index |-> normal.index, raised |-> normal.raised]

extract_translation_entries(root) ==
    LET walked == ExtractLoop(root.children, 1,
                      [entries |-> <<>>, types |-> {}, tindex |-> EmptyDict])
        normal == normalize_entry_ids(walked.entries)
    IN [entries |-> normal.entries, types |-> walked.types,
        tindex |-> walked.tindex, index |-> normal.index, raised |-> normal.raised]

\* root.get('nowhitespace', 'false').lower() == 'true'
NoWhitespaceOf(root) ==
    lower(AttrGet(root.attrib, "nowhitespace", <<"f","a","l","s","e">>)) = <<"t","r","u","e">>

\* load_file(file_path)
LoadFile(path) ==
    /\ file_path' = Some(path)
    /\ UNCHANGED files
    /\ IF files[path].kind = "absent"
       THEN /\ last' = Call("load_file", path, <<>>, FALSE, TRUE)
            /\ UNCHANGED <<xml_tree, language, translated_name, no_whitespace,
                           translation_entries, entry_types, id_to_entry_index,
                           type_to_entries, last_filter_result, last_filter_params>>
       ELSE IF files[path].kind = "malformed"
       THEN /\ last' = Call("load_file", path, <<>>, FALSE, TRUE)
            /\ UNCHANGED <<xml_tree, language, translated_name, no_whitespace,
                           translation_entries, entry_types, id_to_entry_index,
                           type_to_entries, last_filter_result, last_filter_params>>
       ELSE LET root == Parse(files[path].doc[1])
                got == extract_translation_entries(root)
            IN /\ xml_tree' = Some(root)
               /\ language' = Some(AttrGet(root.attrib, "language", <<>>))
               /\ translated_name' = Some(AttrGet(root.attrib, "translatedname", <<>>))
               /\ no_whitespace' = Some(NoWhitespaceOf(root))
               /\ translation_entries' = got.entries
               /\ entry_types' = got.types
               /\ id_to_entry_index' = got.index
               /\ type_to_entries' = got.tindex
               /\ last_filter_result' = None
               /\ last_filter_params' = None
               /\ last' = Call("load_file", path, <<>>, ~got.raised, got.raised)

\* update_translation: the entry list after the call
UpdatedEntries(entries, index, entry_id, translation) ==
    IF entry_id \in DOMAIN index
    THEN [entries EXCEPT ![index[entry_id]].translation = translation]
    ELSE entries

\* update_translation by a scan over the list instead of the id index
UpdateEveryMatch(entry_id, translation) ==
    /\ translation_entries' =
           [i \in 1..Len(translation_entries) |->
               IF translation_entries[i].id = entry_id
               THEN [translation_entries[i] EXCEPT !.translation = translation]
               ELSE translation_entries[i]]
    /\ last_filter_result' = None
    /\ last_filter_params' = None
    /\ last' = Call("update_translation", "", entry_id,
                    entry_id \in DOMAIN id_to_entry_index, FALSE)
    /\ UNCHANGED <<files, file_path, xml_tree, language, translated_name,
                   no_whitespace, entry_types, id_to_entry_index, type_to_entries>>

\* update_translation(entry_id, translation)
UpdateTranslation(entry_id, translation) ==
    IF entry_id \in DOMAIN id_to_entry_index
    THEN /\ translation_entries' =
                UpdatedEntries(translation_entries, id_to_entry_index, entry_id, translation)
         /\ last_filter_result' = None
         /\ last_filter_params' = None
         /\ last' = Call("update_translation", "", entry_id, TRUE, FALSE)
         /\ UNCHANGED <<files, file_path, xml_tree, language, translated_name,
                        no_whitespace, entry_types, id_to_entry_index, type_to_entries>>
    ELSE /\ last' = Call("update_translation", "", entry_id, FALSE, FALSE)
         /\ UNCHANGED <<files, store>>

\* the keys of category_keywords in filter_entries
CategoryNames ==
    {<<"w","e","a","p","o","n">>, <<"t","o","o","l">>, <<"m","e","d","i","c","a","l">>, <<"s","u","i","t">>, <<"i","t","e","m">>, <<"m","a","t","e","r","i","a","l">>, <<"c","r","e","a","t","u","r","e">>}

\* category_keywords in filter_entries
KeywordsOf(k) ==
    CASE (k = <<"w","e","a","p","o","n">>) ->
        {<<"w","e","a","p","o","n">>,
         <<"g","u","n">>,
         <<"r","i","f","l","e">>,
         <<"p","i","s","t","o","l">>,
         <<"s","h","o","t","g","u","n">>,
         <<"s","m","g">>,
         <<"r","e","v","o","l","v","e","r">>,
         <<"c","o","i","l","g","u","n">>,
         <<"r","a","i","l","g","u","n">>,
         <<"e","x","p","l","o","s","i","v","e">>,
         <<"g","r","e","n","a","d","e">>,
         <<"l","a","u","n","c","h","e","r">>,
         <<"m","a","c","h","i","n","e","g","u","n">>,
         <<"c","a","r","b","i","n","e">>,
         <<"a","s","s","a","u","l","t">>,
         <<"s","n","i","p","e","r">>}
      [] (k = <<"t","o","o","l">>) ->
        {<<"t","o","o","l">>,
         <<"c","u","t","t","e","r">>,
         <<"w","e","l","d","e","r">>,
         <<"s","c","r","e","w","d","r","i","v","e","r">>,
         <<"w","r","e","n","c","h">>,
         <<"c","r","o","w","b","a","r">>,
         <<"r","e","p","a","i","r">>,
         <<"e","x","t","i","n","g","u","i","s","h","e","r">>,
         <<"k","n","i","f","e">>,
         <<"a","x","e">>,
         <<"m","a","c","e">>,
         <<"s","w","o","r","d">>}
      [] (k = <<"m","e","d","i","c","a","l">>) ->
        {<<"m","e","d","i","c","a","l">>,
         <<"m","e","d","i","c">>,
         <<"b","a","n","d","a","g","e">>,
         <<"h","e","a","l","t","h">>,
         <<"f","i","r","s","t","a","i","d">>,
         <<"a","n","t","i","d","o","t","e">>,
         <<"m","e","d","i","c","i","n","e">>,
         <<"c","u","r","e">>,
         <<"s","t","i","m">>,
         <<"h","e","a","l">>,
         <<"a","f","f","l","i","c","t","i","o","n">>}
      [] (k = <<"s","u","i","t">>) ->
        {<<"s","u","i","t">>,
         <<"d","i","v","i","n","g">>,
         <<"a","r","m","o","r">>,
         <<"u","n","i","f","o","r","m">>,
         <<"c","l","o","t","h","e","s">>,
         <<"h","e","l","m","e","t">>,
         <<"g","e","a","r">>,
         <<"o","u","t","f","i","t">>,
         <<"e","x","o","s","k","e","l","e","t","o","n">>,
         <<"b","a","l","l","i","s","t","i","c","h","e","l","m","e","t">>,
         <<"b","o","d","y","a","r","m","o","r">>,
         <<"t","a","c","t","i","c","a","l">>}
      [] (k = <<"i","t","e","m">>) ->
        {<<"r","o","u","n","d">>,
         <<"a","m","m","o">>,
         <<"m","a","g","a","z","i","n","e">>,
         <<"s","h","e","l","l">>,
         <<"b","u","l","l","e","t">>,
         <<"c","l","i","p">>,
         <<"e","x","p","l","o","s","i","v","e">>,
         <<"d","a","r","t">>,
         <<"r","o","c","k","e","t">>,
         <<"g","r","e","n","a","d","e">>,
         <<"c","a","r","t","r","i","d","g","e">>}
      [] (k = <<"m","a","t","e","r","i","a","l">>) ->
        {<<"m","a","t","e","r","i","a","l">>,
         <<"r","e","s","o","u","r","c","e">>,
         <<"s","t","e","e","l">>,
         <<"p","l","a","s","t","i","c">>,
         <<"r","u","b","b","e","r">>,
         <<"f","a","b","r","i","c">>,
         <<"o","r","g","a","n","i","c">>,
         <<"a","l","i","e","n">>,
         <<"b","a","r","r","e","l">>,
         <<"r","e","c","i","e","v","e","r">>,
         <<"g","u","n","p","o","w","d","e","r">>}
      [] (k = <<"c","r","e","a","t","u","r","e">>) ->
        {<<"c","r","e","a","t","u","r","e">>,
         <<"m","o","n","s","t","e","r">>,
         <<"a","n","i","m","a","l">>,
         <<"a","l","i","e","n">>,
         <<"m","o","l","o","c","h">>,
         <<"e","n","d","w","o","r","m">>,
         <<"c","r","a","w","l","e","r">>,
         <<"h","u","s","k">>,
         <<"a","f","f","l","i","c","t","i","o","n">>}

category_keywords == [k \in CategoryNames |-> KeywordsOf(k)]

\* (translation != original) and translation.strip()
is_translated(entry) ==
    entry.translation # entry.original /\ strip(entry.translation) # <<>>

\* translation.strip().startswith("[已标记]")
is_marked(entry) == startswith(strip(entry.translation), Sentinel)

\* the untranslated test, were a translation equal to the original not counted
is_blank(entry) == strip(entry.translation) = <<>>

\* not translation.strip() or translation == original
is_untranslated(entry) ==
    strip(entry.translation) = <<>> \/ entry.translation = entry.original

\* the loop body with a search that compares the search text as typed
FilterKeepsCaseSensitive(entry, tindex, p) ==
    /\ ~(Truthy(p.entry_type) /\ entry.type # p.entry_type[1]
         /\ ~(p.entry_type[1] \in DOMAIN tindex))
    /\ Truthy(p.item_category) =>
          /\ p.item_category[1] \in CategoryNames
          /\ \E keyword \in category_keywords[p.item_category[1]] :
                \/ contains(keyword, lower(entry.id))
                \/ contains(keyword, lower(entry.original))
    /\ Truthy(p.search_text) =>
          ~(/\ ~contains(p.search_text[1], lower(entry.id))
            /\ ~contains(p.search_text[1], lower(entry.original))
            /\ ~contains(p.search_text[1], lower(entry.translation)))
    /\ p.translated_only => (is_translated(entry) \/ is_marked(entry))
    /\ p.untranslated_only => (is_untranslated(entry) /\ ~is_marked(entry))

\* the body of the loop of filter_entries: TRUE when the entry is appended
FilterKeeps(entry, tindex, p) ==
    /\ ~(Truthy(p.entry_type) /\ entry.type # p.entry_type[1]
         /\ ~(p.entry_type[1] \in DOMAIN tindex))
    /\ Truthy(p.item_category) =>
          /\ p.item_category[1] \in CategoryNames
          /\ \E keyword \in category_keywords[p.item_category[1]] :
                \/ contains(keyword, lower(entry.id))
                \/ contains(keyword, lower(entry.original))
    /\ Truthy(p.search_text) =>
          ~(/\ ~contains(lower(p.search_text[1]), lower(entry.id))
            /\ ~contains(lower(p.search_text[1]), lower(entry.original))
            /\ ~contains(lower(p.search_text[1]), lower(entry.translation)))
    /\ p.translated_only => (is_translated(entry) \/ is_marked(entry))
    /\ p.untranslated_only => (is_untranslated(entry) /\ ~is_marked(entry))

\* filter_entries: the result, as the store positions of the entries returned
FilterResult(entries, tindex, p) ==
    LET base_entries ==
            IF Truthy(p.entry_type) /\ p.entry_type[1] \in DOMAIN tindex
            THEN tindex[p.entry_type[1]]
            ELSE [i \in 1..Len(entries) |-> i]
    IN SelectSeq(base_entries, LAMBDA idx : FilterKeeps(entries[idx], tindex, p))

FilterParams(entry_type, search_text, translated_only, item_category, untranslated_only) ==
    [entry_type |-> entry_type, search_text |-> search_text,
     translated_only |-> translated_only, item_category |-> item_category,
     untranslated_only |-> untranslated_only]

\* filter_entries(entry_type, search_text, translated_only, item_category, untranslated_only)
FilterEntries(p) ==
    /\ last_filter_params' = Some(p)
    /\ last_filter_result' = Some(FilterResult(translation_entries, type_to_entries, p))
    /\ last' = Call("filter_entries", "", <<>>, TRUE, FALSE)
    /\ UNCHANGED <<files, file_path, xml_tree, language, translated_name, no_whitespace,
                   translation_entries, entry_types, id_to_entry_index, type_to_entries>>

\* save_xml: [(root.index(child), child) for the comment children of root]
CommentsOf(root) ==
    LET at == SelectSeq([i \in 1..Len(root.children) |-> i],
                        LAMBDA i : IsComment(root.children[i]))
    IN [k \in 1..Len(at) |-> [pos |-> at[k] - 1, node |-> root.children[at[k]]]]

\* list.insert(pos, x) with a 0-based pos <= len
InsertAt(seq, pos, x) ==
    SubSeq(seq, 1, pos) \o <<x>> \o SubSeq(seq, pos + 1, Len(seq))

\* save_xml: the loop that puts the comments back
RECURSIVE RestoreComments(_, _, _)
RestoreComments(children, comments, k) ==
    IF k > Len(comments) THEN children
    ELSE RestoreComments(
             IF comments[k].pos < Len(children)
             THEN InsertAt(children, comments[k].pos, comments[k].node)
             ELSE Append(children, comments[k].node),
             comments, k + 1)

\* save_xml writing the source text instead of the translation
EntryElementsOriginal(entries) ==
    [i \in 1..Len(entries) |-> Elem(entries[i].type, Some(entries[i].original))]

\* save_xml: one SubElement per entry, tag = type, text = translation
EntryElements(entries) ==
    [i \in 1..Len(entries) |-> Elem(entries[i].type, Some(entries[i].translation))]

\* the tree save_xml builds
NewTree(root, entries) ==
    [tag |-> root.tag, attrib |-> root.attrib,
     children |-> RestoreComments(EntryElements(entries), CommentsOf(root), 1)]

\* the loaded tree once insert() has moved its comment nodes into new_root
WithoutComments(root) ==
    [root EXCEPT !.children = SelectSeq(root.children, LAMBDA n : ~IsComment(n))]

ReadOnlyPath == "ro/out.xml"

\* open(output_path, 'wb') succeeds
Writable(path) == path # ReadOnlyPath

\* save_xml(output_path)
SaveXml(output) ==
    LET output_path == IF output = None THEN file_path ELSE output
        p == IF output_path = None THEN "" ELSE output_path[1]
    IN IF xml_tree = None
       THEN /\ last' = Call("save_xml", p, <<>>, FALSE, TRUE)
            /\ UNCHANGED <<files, store>>
       ELSE LET root == xml_tree[1]
                new_tree == NewTree(root, translation_entries)
            IN /\ IF Writable(p)
                  THEN /\ files' = [files EXCEPT ![p] = XmlFile(Serialize(new_tree))]
                       /\ xml_tree' = Some(new_tree)
                       /\ last' = Call("save_xml", p, <<>>, TRUE, FALSE)
                  ELSE /\ files' = files
                       /\ xml_tree' = Some(WithoutComments(root))
                       /\ last' = Call("save_xml", p, <<>>, FALSE, TRUE)
               /\ UNCHANGED <<file_path, language, translated_name, no_whitespace,
                              translation_entries, entry_types, id_to_entry_index,
                              type_to_entries, last_filter_result, last_filter_params>>

---------------------------------------------------------------------------
(* Inputs                                                                  *)

MaxChildren == 3

MaxSaves == 2

MaxEntries == 2

T_gun == <<"g","u","n">>

T_a == <<"a">>

T_zz == <<"z","z">>

S_Gun == <<"G","u","n">>

S_y == <<"y">>

S_blank == <<" ">>

S_marked == Sentinel \o <<" ", "a">>

\* the children a document is made of: an element with text (which may occur
\* twice), an element of another tag without text, and a comment
NodePool ==
    {Elem(T_gun, Some(S_Gun)), Elem(T_a, None), Comment(<<"c">>)}

RECURSIVE SeqsUpTo(_, _)
SeqsUpTo(S, n) ==
    IF n = 0 THEN {<<>>}
    ELSE LET shorter == SeqsUpTo(S, n - 1)
         IN shorter \cup {Append(q, x) : q \in {r \in shorter : Len(r) = n - 1}, x \in S}

\* one attribute present, one absent, and a flag that needs lower()
AttribPool ==
    {[language |-> Some(<<"e","n">>), translatedname |-> None,
      nowhitespace |-> Some(<<"T","r","u","e">>)]}

DocPool ==
    {[tag |-> <<"i","n","f","o","t","e","x","t","s">>, attrib |-> a, children |-> c] :
        a \in AttribPool, c \in SeqsUpTo(NodePool, MaxChildren)}

Paths == {"in.xml", "bad.xml", ReadOnlyPath}

IdPool == {T_gun, T_a, T_zz}

UpdateTexts == {S_y}

---------------------------------------------------------------------------
(* The store driven through its own interface                              *)

\* "全部", the first item of category_combo
AllCategories == <<"quan2", "bu4">>

Counts(translated, total) == [translated |-> translated, total |-> total]

\* no translator call was made yet
NoCall ==
    [op |-> "none", text |-> <<>>, result |-> <<>>, sent |-> <<>>, outs |-> <<>>,
     how |-> <<>>, replies |-> <<>>, requests |-> 0, errors |-> 0,
     raised |-> FALSE, completed |-> <<>>, done |-> TRUE]

\* no queue run yet: the queue start_translation found, the items handed to
\* translator.translate, what the backend calls of the last answered call
\* returned, the Python frames of the driver, and whether the interpreter
\* has ended the process
NoRun ==
    [queued |-> <<>>, issued |-> <<>>, outs |-> <<>>, stack |-> <<>>, crashed |-> FALSE]

\* XMLHandler.__init__ and MainWindow.__init__
InitWindow ==
    /\ file_path = None
    /\ xml_tree = None
    /\ language = None
    /\ translated_name = None
    /\ no_whitespace = None
    /\ translation_entries = <<>>
    /\ entry_types = {}
    /\ id_to_entry_index = EmptyDict
    /\ type_to_entries = EmptyDict
    /\ last_filter_result = None
    /\ last_filter_params = None
    /\ last = Call("init", "", <<>>, TRUE, FALSE)
    /\ translation_table = <<>>
    /\ is_translating = FALSE
    /\ translation_queue = <<>>
    /\ pending = None
    /\ search_edit = <<>>
    /\ category_combo = AllCategories
    /\ translated_only_check = FALSE
    /\ untranslated_only_check = FALSE
    /\ stats = Counts(0, 0)
    /\ chart = Counts(0, 0)
    /\ saves = 0
    /\ loaded = None
    /\ since_load = "never"
    /\ placeholders = <<>>
    /\ call = NoCall
    /\ run = NoRun

\* InitWindow and TranslatorManager.__init__
InitRest ==
    /\ InitWindow
    /\ api_type = "None"
    /\ api_key = None

\* the files on disk: one document, one file that does not parse
DiskWith(d) ==
    [p \in Paths |->
        CASE p = "in.xml" -> XmlFile(d)
          [] p = "bad.xml" -> Malformed
          [] OTHER -> Absent]

InitWith(pool) == (\E d \in pool : files = DiskWith(d)) /\ InitRest

Init == InitWith(DocPool)

\* The history variables.  since_load is "never" before the first successful
\* load_file, "clean" while only update_translation and filter_entries were
\* called since it, "saved" after one successful save_xml from there,
\* "reloaded" after a successful load_file of the path just saved (from where
\* the history goes on as from "clean"), and "other" in every other case.
Observe ==
    /\ loaded' = IF last'.op = "load_file" /\ last'.ret THEN xml_tree' ELSE loaded
    /\ since_load' =
          CASE last'.op = "load_file" /\ last'.ret ->
                 IF since_load = "saved" /\ last'.path = last.path
                 THEN "reloaded" ELSE "clean"
            [] last'.op \in {"update_translation", "filter_entries"}
                 /\ since_load \in {"never", "clean", "reloaded"} -> since_load
            [] last'.op = "save_xml" /\ last'.ret
                 /\ since_load \in {"clean", "reloaded"} -> "saved"
            [] OTHER -> IF since_load = "never" THEN "never" ELSE "other"

DoLoad == (\E p \in Paths : LoadFile(p)) /\ UNCHANGED <<ui, saves>> /\ Observe /\ UNCHANGED <<api, run>>

DoSave ==
    /\ saves < MaxSaves
    /\ saves' = saves + 1
    /\ \E o \in {None} \cup {Some(p) : p \in Paths} : SaveXml(o)
    /\ UNCHANGED ui
    /\ Observe
    /\ UNCHANGED <<api, run>>

DoUpdate ==
    /\ \E id \in IdPool, t \in UpdateTexts : UpdateTranslation(id, t)
    /\ UNCHANGED <<ui, saves>>
    /\ Observe
    /\ UNCHANGED <<api, run>>

Next == DoLoad \/ DoSave \/ DoUpdate

Spec == Init /\ [][Next]_vars

---------------------------------------------------------------------------
(* filter_entries called on a loaded store                                 *)

S_lead == <<" ">> \o Sentinel

\* elements whose texts differ in case from the search text and the keyword
\* table, one that carries the sentinel, and one without text
FilterNodePool ==
    {Elem(T_gun, Some(S_Gun)), Elem(T_a, Some(S_marked)), Elem(T_a, None)}

FilterDocPool ==
    {[tag |-> <<"i","n","f","o","t","e","x","t","s">>, attrib |-> a, children |-> c] :
        a \in AttribPool, c \in SeqsUpTo(FilterNodePool, MaxEntries)}

FilterUpdateTexts == {S_y, S_blank}

S_GU == <<"G","U">>

K_weapon == <<"w","e","a","p","o","n">>

K_unknown == <<"x">>

FilterParamPool ==
    {FilterParams(t, s, tr, c, un) :
        t \in {None, Some(T_gun), Some(T_zz)},
        s \in {None, Some(S_GU)},
        tr \in BOOLEAN,
        c \in {None, Some(K_weapon), Some(K_unknown)},
        un \in BOOLEAN}

InitFilter == InitWith(FilterDocPool)

QLoad == LoadFile("in.xml") /\ UNCHANGED <<ui, hist>> /\ UNCHANGED <<api, run>>

QUpdate ==
    /\ \E id \in IdPool, t \in FilterUpdateTexts : UpdateTranslation(id, t)
    /\ UNCHANGED <<ui, hist>>
    /\ UNCHANGED <<api, run>>

QFilter == (\E p \in FilterParamPool : FilterEntries(p)) /\ UNCHANGED <<ui, hist>> /\ UNCHANGED <<api, run>>

NextFilter == QLoad \/ QUpdate \/ QFilter

SpecFilter == InitFilter /\ [][NextFilter]_vars

---------------------------------------------------------------------------
(* A store that also meets files with a processing instruction              *)

PIPath == "pi.xml"

\* the children of the file at PIPath: elements and a processing instruction
PINodePool == {Elem(T_gun, Some(S_Gun)), Elem(T_a, None), PI(S_y)}

PIDocPool ==
    {[tag |-> <<"i","n","f","o","t","e","x","t","s">>, attrib |-> a, children |-> c] :
        a \in AttribPool, c \in SeqsUpTo(PINodePool, MaxChildren)}

InitIndex ==
    /\ \E d \in DocPool, e \in PIDocPool :
          files = [p \in Paths \cup {PIPath} |->
                      IF p = PIPath THEN XmlFile(e) ELSE DiskWith(d)[p]]
    /\ InitRest

ILoad ==
    /\ \E p \in {"in.xml", "bad.xml", PIPath} : LoadFile(p)
    /\ UNCHANGED <<ui, hist>>
    /\ UNCHANGED <<api, run>>

IUpdate ==
    /\ \E id \in IdPool \cup {PITag}, t \in UpdateTexts : UpdateTranslation(id, t)
    /\ UNCHANGED <<ui, hist>>
    /\ UNCHANGED <<api, run>>

NextIndex == ILoad \/ IUpdate

SpecIndex == InitIndex /\ [][NextIndex]_vars

---------------------------------------------------------------------------
(* XMLHandler: the spreadsheet exchange                                    *)

\* headers = required_columns = ['类型', 'ID', '原文', '译文']
ExcelHeaders == <<"lei4xing2", "ID", "yuan2wen2", "yi4wen2">>

StrCell(s) == [kind |-> "str", value |-> s]

EmptyCell == [kind |-> "empty", value |-> <<>>]

FormulaCell(s) == [kind |-> "formula", value |-> s]

NumCell == [kind |-> "num", value |-> <<>>]

NaN == [kind |-> "nan", value |-> <<>>]

SheetRow(type, id, original, translation) ==
    [type |-> type, id |-> id, original |-> original, translation |-> translation]

ExcelFile(columns, rows) ==
    [kind |-> "xlsx", doc |-> Some([columns |-> columns, rows |-> rows])]

\* ws.append(row): the cell the workbook keeps for a str; "" is stored as no
\* value and a str of more than one character that begins with "=" as a formula
WriteCell(s) ==
    IF s = <<>> THEN EmptyCell
    ELSE IF Len(s) > 1 /\ s[1] = "=" THEN FormulaCell(s)
    ELSE StrCell(s)

\* the strings pd.read_excel reads as NaN by default
NaStrings ==
    { <<"#","N","/","A">>, <<"#","N","/","A"," ","N","/","A">>, <<"#","N","A">>,
      <<"-","1",".","#","I","N","D">>, <<"-","1",".","#","Q","N","A","N">>,
      <<"-","N","a","N">>, <<"-","n","a","n">>, <<"1",".","#","I","N","D">>,
      <<"1",".","#","Q","N","A","N">>, <<"<","N","A",">">>, <<"N","/","A">>,
      <<"N","A">>, <<"N","U","L","L">>, <<"N","a","N">>, <<"N","o","n","e">>,
      <<"n","/","a">>, <<"n","a","n">>, <<"n","u","l","l">> }

\* pd.read_excel: the value of a cell in the data frame; a formula written
\* without a cached value has none
ReadCell(c) ==
    IF c.kind \in {"empty", "formula"} \/ (c.kind = "str" /\ c.value \in NaStrings)
    THEN NaN
    ELSE c

\* export_to_excel: the workbook it saves
ExportedSheet(entries) ==
    ExcelFile({ExcelHeaders[k] : k \in 1..Len(ExcelHeaders)},
              [i \in 1..Len(entries) |->
                  SheetRow(WriteCell(entries[i].type), WriteCell(entries[i].id),
                           WriteCell(entries[i].original),
                           WriteCell(entries[i].translation))])

\* export_to_excel(output_path)
ExportToExcel(output_path) ==
    /\ IF Writable(output_path)
       THEN /\ files' = [files EXCEPT ![output_path] = ExportedSheet(translation_entries)]
            /\ last' = Call("export_to_excel", output_path, <<>>, TRUE, FALSE)
       ELSE /\ UNCHANGED files
            /\ last' = Call("export_to_excel", output_path, <<>>, FALSE, TRUE)
    /\ UNCHANGED store

Min(S) == CHOOSE x \in S : \A y \in S : x <= y

\* translation_map[entry_id] = translation on a dict that keeps insertion order
MapPut(map, key, value) ==
    IF \E k \in 1..Len(map) : map[k].key = key
    THEN [k \in 1..Len(map) |->
             IF map[k].key = key THEN [key |-> key, value |-> value] ELSE map[k]]
    ELSE Append(map, [key |-> key, value |-> value])

\* translation.strip() raises when the cell holds a number
RowRaises(row) == ReadCell(row.translation).kind = "num"

\* import_from_excel: the loop over the rows that fills translation_map
RECURSIVE MapLoop(_, _, _)
MapLoop(rows, k, map) ==
    IF k > Len(rows) THEN map
    ELSE LET entry_id == ReadCell(rows[k].id)
             translation == ReadCell(rows[k].translation)
         IN IF translation.kind = "str" /\ strip(translation.value) # <<>>
            THEN MapLoop(rows, k + 1, MapPut(map, entry_id, translation.value))
            ELSE MapLoop(rows, k + 1, map)

\* entry_id in self._id_to_entry_index
InIndex(index, key) == key.kind = "str" /\ key.value \in DOMAIN index

\* import_from_excel: the loop over translation_map; the entries and count
RECURSIVE UpdateLoop(_, _, _, _, _)
UpdateLoop(entries, index, map, k, count) ==
    IF k > Len(map) THEN [entries |-> entries, count |-> count]
    ELSE IF InIndex(index, map[k].key)
         THEN UpdateLoop([entries EXCEPT ![index[map[k].key.value]].translation =
                             map[k].value],
                         index, map, k + 1, count + 1)
         ELSE UpdateLoop(entries, index, map, k + 1, count)

\* import_from_excel fails: read_excel raises, a column is missing or a row raises
ImportFails(file) ==
    \/ file.kind # "xlsx"
    \/ \E k \in 1..Len(ExcelHeaders) : ExcelHeaders[k] \notin file.doc[1].columns
    \/ \E k \in 1..Len(file.doc[1].rows) : RowRaises(file.doc[1].rows[k])

\* import_from_excel, were each row written to the store as it is read
ImportRowByRow(excel_path) ==
    LET file == files[excel_path]
        rows == IF file.kind = "xlsx" /\ file.doc[1].columns = {ExcelHeaders[k] : k \in 1..Len(ExcelHeaders)}
                THEN file.doc[1].rows ELSE <<>>
        bad == {k \in 1..Len(rows) : RowRaises(rows[k])}
        read == IF bad = {} THEN rows ELSE SubSeq(rows, 1, Min(bad) - 1)
        done == UpdateLoop(translation_entries, id_to_entry_index,
                           MapLoop(read, 1, <<>>), 1, 0)
    IN /\ translation_entries' = done.entries
       /\ last' = Call("import_from_excel", excel_path, <<>>, ~ImportFails(file), ImportFails(file))
       /\ last_filter_result' = IF ImportFails(file) THEN last_filter_result ELSE None
       /\ last_filter_params' = IF ImportFails(file) THEN last_filter_params ELSE None
       /\ UNCHANGED <<files, file_path, xml_tree, language, translated_name, no_whitespace,
                      entry_types, id_to_entry_index, type_to_entries>>

\* import_from_excel(excel_path)
ImportFromExcel(excel_path) ==
    LET file == files[excel_path] IN
    /\ IF ImportFails(file)
       THEN /\ last' = Call("import_from_excel", excel_path, <<>>, FALSE, TRUE)
            /\ UNCHANGED <<translation_entries, last_filter_result, last_filter_params>>
       ELSE LET translation_map == MapLoop(file.doc[1].rows, 1, <<>>)
                done == UpdateLoop(translation_entries, id_to_entry_index,
                                   translation_map, 1, 0)
            IN /\ translation_entries' = done.entries
               /\ last_filter_result' = None
               /\ last_filter_params' = None
               /\ last' = Call("import_from_excel", excel_path, <<>>, TRUE, FALSE)
    /\ UNCHANGED <<files, file_path, xml_tree, language, translated_name, no_whitespace,
                   entry_types, id_to_entry_index, type_to_entries>>

MaxRows == 2

\* documents whose tags may repeat, with and without text
ExcelNodePool == {Elem(T_gun, Some(S_Gun)), Elem(T_gun, None), Elem(T_a, None)}

ExcelDocPool ==
    {[tag |-> <<"i","n","f","o","t","e","x","t","s">>, attrib |-> a, children |-> c] :
        a \in AttribPool, c \in SeqsUpTo(ExcelNodePool, MaxEntries)}

\* rows with a known id and a translation, with an empty and a blank
\* translation, with an id the store lacks, with a number and with "NA"
SheetRowPool ==
    { SheetRow(StrCell(T_gun), StrCell(T_gun), StrCell(S_Gun), StrCell(S_y)),
      SheetRow(StrCell(T_gun), StrCell(T_gun), StrCell(S_Gun), EmptyCell),
      SheetRow(StrCell(T_a), StrCell(T_a), EmptyCell, StrCell(S_blank)),
      SheetRow(StrCell(T_zz), StrCell(T_zz), EmptyCell, StrCell(S_y)),
      SheetRow(StrCell(T_a), StrCell(T_a), EmptyCell, NumCell),
      SheetRow(StrCell(T_a), StrCell(T_a), EmptyCell, StrCell(<<"N","A">>)) }

AllHeaders == {ExcelHeaders[k] : k \in 1..Len(ExcelHeaders)}

\* spreadsheets with every column, and one that lacks the translation column
SheetPool ==
    {ExcelFile(AllHeaders, rows) : rows \in SeqsUpTo(SheetRowPool, MaxRows)}
        \cup {ExcelFile(AllHeaders \ {"yi4wen2"},
                        <<SheetRow(StrCell(T_gun), StrCell(T_gun), StrCell(S_Gun), EmptyCell)>>)}

ExcelPath == "out.xlsx"

InitExcel ==
    /\ \E d \in ExcelDocPool, sheet \in SheetPool :
          files = [p \in Paths \cup {ExcelPath} |->
                      IF p = ExcelPath THEN sheet ELSE DiskWith(d)[p]]
    /\ InitRest

XLoad == LoadFile("in.xml") /\ UNCHANGED <<ui, hist>> /\ UNCHANGED <<api, run>>

XUpdate ==
    /\ \E id \in IdPool, t \in UpdateTexts : UpdateTranslation(id, t)
    /\ UNCHANGED <<ui, hist>>
    /\ UNCHANGED <<api, run>>

XExport ==
    /\ \E path \in {ExcelPath, ReadOnlyPath} : ExportToExcel(path)
    /\ UNCHANGED <<ui, hist>>
    /\ UNCHANGED <<api, run>>

XImport ==
    /\ \E path \in {ExcelPath, ReadOnlyPath} : ImportFromExcel(path)
    /\ UNCHANGED <<ui, hist>>
    /\ UNCHANGED <<api, run>>

NextExcel == XLoad \/ XUpdate \/ XExport \/ XImport

SpecExcel == InitExcel /\ [][NextExcel]_vars

---------------------------------------------------------------------------
(* TranslationAPI: the backend client the main window holds                *)

\* re.finditer(r'\[([^\]]+)\]', text): the first match that starts at or
\* after position i, as its first and last position, or None
RECURSIVE NextMatch(_, _)
NextMatch(text, i) ==
    IF i > Len(text) THEN None
    ELSE LET closes == {j \in (i + 1)..Len(text) : text[j] = "]"} IN
         IF text[i] = "[" /\ closes # {} /\ Min(closes) >= i + 2
         THEN Some([start |-> i, end |-> Min(closes)])
         ELSE NextMatch(text, i + 1)

Segment(type, content) == [type |-> type, content |-> content]

\* process_with_placeholder_protection: the segments list
RECURSIVE SplitSegments(_, _, _)
SplitSegments(text, from, segments) ==
    LET m == NextMatch(text, from) IN
    IF m = None
    THEN LET text_after == SubSeq(text, from, Len(text))
         IN IF from <= Len(text) /\ strip(text_after) # <<>>
            THEN Append(segments, Segment("text", text_after))
            ELSE segments
    ELSE LET text_before == SubSeq(text, from, m[1].start - 1)
             placeholder == SubSeq(text, m[1].start, m[1].end)
             with_text == IF m[1].start > from /\ strip(text_before) # <<>>
                          THEN Append(segments, Segment("text", text_before))
                          ELSE segments
         IN SplitSegments(text, m[1].end + 1,
                          Append(with_text, Segment("placeholder", placeholder)))

\* the number of _do_translate calls process_with_placeholder_protection makes
BackendCalls(text) ==
    IF NextMatch(text, 1) = None THEN 1
    ELSE Len(SelectSeq(SplitSegments(text, 1, <<>>), LAMBDA g : g.type = "text"))

\* str.replace(old, new)
RECURSIVE Replace(_, _, _)
Replace(s, old, new) ==
    IF Len(s) < Len(old) THEN s
    ELSE IF startswith(s, old)
         THEN new \o Replace(SubSeq(s, Len(old) + 1, Len(s)), old, new)
         ELSE <<Head(s)>> \o Replace(Tail(s), old, new)

P_name == <<"[","n","a","m","e","]">>

\* the corrections dict of process_with_placeholder_protection, in its order
Corrections ==
    << <<(<<"[","xing4","ming2","]">>), P_name>>,
       <<(<<"[","ming2","zi4","]">>), P_name>>,
       <<(<<"[","ren2","ming2","]">>), P_name>>,
       <<(<<"[","yong4","hu4","]">>), P_name>>,
       <<(<<"[","wan2","jia1","]">>), P_name>>,
       <<(<<"[","jue2","se4","]">>), (<<"[","c","h","a","r","a","c","t","e","r","]">>)>>,
       <<(<<"[","shu4","zhi2","]">>), (<<"[","v","a","l","u","e","]">>)>>,
       <<(<<"[","shu4","zi4","]">>), (<<"[","n","u","m","b","e","r","]">>)>>,
       <<(<<"[","di4","dian3","]">>), (<<"[","l","o","c","a","t","i","o","n","]">>)>>,
       <<(<<"[","wu4","pin3","]">>), (<<"[","i","t","e","m","]">>)>>,
       <<(<<"[","wu3","qi4","]">>), (<<"[","w","e","a","p","o","n","]">>)>> >>

RECURSIVE ApplyCorrections(_, _)
ApplyCorrections(result, k) ==
    IF k > Len(Corrections) THEN result
    ELSE LET next(replaced) == ApplyCorrections(replaced, k + 1)
         IN CHOOSE fixed \in {next(replaced) :
                                 replaced \in {Replace(result, Corrections[k][1],
                                                       Corrections[k][2])}} : TRUE

\* the loop that joins the segments; outs[n] is what the n-th _do_translate returns
RECURSIVE JoinSegments(_, _, _, _)
JoinSegments(segments, k, outs, n) ==
    IF k > Len(segments) THEN <<>>
    ELSE IF segments[k].type = "text"
         THEN outs[n] \o JoinSegments(segments, k + 1, outs, n + 1)
         ELSE segments[k].content \o JoinSegments(segments, k + 1, outs, n)

\* process_with_placeholder_protection(text): the result it emits and returns
process_with_placeholder_protection(text, outs) ==
    IF NextMatch(text, 1) = None THEN outs[1]
    ELSE ApplyCorrections(JoinSegments(SplitSegments(text, 1, <<>>), 1, outs, 1), 1)

\* what _do_translate returns: "" on any failure, else the stripped content
BackendReturns == {<<>>, S_y}

---------------------------------------------------------------------------
(* MainWindow                                                              *)

Row(entry) == [id |-> entry.id, original |-> entry.original, translation |-> entry.translation]

\* populate_table_with_entries(entries), the entries given by store position
Rows(entries, positions) == [k \in 1..Len(positions) |-> Row(entries[positions[k]])]

AllPositions(entries) == [i \in 1..Len(entries) |-> i]

\* update_xml_from_table: the entry list after the loop over the rows
RECURSIVE UpdateXmlFromTable(_, _, _, _)
UpdateXmlFromTable(entries, index, table, row) ==
    IF row > Len(table) THEN entries
    ELSE UpdateXmlFromTable(
             UpdatedEntries(entries, index, table[row].id, table[row].translation),
             index, table, row + 1)

\* update_xml_from_table reached an entry, so update_translation cleared the caches
TableReachesStore(index, table) == \E row \in 1..Len(table) : table[row].id \in DOMAIN index

\* update_translation_stats: translated_count, total_count
update_translation_stats(entries) ==
    IF entries = <<>> THEN Counts(0, 0)
    ELSE Counts(Cardinality({i \in 1..Len(entries) :
                                is_translated(entries[i]) \/ is_marked(entries[i])}),
                Len(entries))

\* the recount in on_translation_completed and mark_selected_as_translated
Recount(entries) ==
    Counts(Cardinality({i \in 1..Len(entries) :
                           /\ entries[i].translation # entries[i].original
                           /\ strip(entries[i].translation) # <<>>}),
           Len(entries))

\* "[已标记] " + original_text
MarkText(original_text) == Sentinel \o <<" ">> \o original_text

\* filter_entries without the reset of the two flags
RawFilterParams(search, category, translated_only, untranslated_only) ==
    FilterParams(None, Some(search),
                 translated_only,
                 IF category = AllCategories THEN None ELSE Some(category),
                 untranslated_only)

\* filter_entries: the arguments passed to XMLHandler.filter_entries
WindowFilterParams(search, category, translated_only, untranslated_only) ==
    FilterParams(None, Some(search),
                 IF translated_only /\ untranslated_only THEN FALSE ELSE translated_only,
                 IF category = AllCategories THEN None ELSE Some(category),
                 IF translated_only /\ untranslated_only THEN FALSE ELSE untranslated_only)

\* MainWindow.filter_entries, run by a change of one of the filter widgets
WindowFilter ==
    /\ FilterEntries(WindowFilterParams(search_edit', category_combo',
                                        translated_only_check', untranslated_only_check'))
    /\ translation_table' = Rows(translation_entries, last_filter_result'[1])
    /\ UNCHANGED <<is_translating, translation_queue, pending, stats, chart, hist>>

Idle == pending = None

SearchTexts == {<<>>, S_GU}

\* search_edit.textChanged
USearch ==
    /\ Idle
    /\ \E text \in SearchTexts \ {search_edit} : search_edit' = text
    /\ UNCHANGED <<category_combo, translated_only_check, untranslated_only_check>>
    /\ WindowFilter
    /\ UNCHANGED <<api, run>>

\* translated_only_check.stateChanged
UCheckTranslated ==
    /\ Idle
    /\ translated_only_check' = ~translated_only_check
    /\ UNCHANGED <<search_edit, category_combo, untranslated_only_check>>
    /\ WindowFilter
    /\ UNCHANGED <<api, run>>

\* untranslated_only_check.stateChanged
UCheckUntranslated ==
    /\ Idle
    /\ untranslated_only_check' = ~untranslated_only_check
    /\ UNCHANGED <<search_edit, category_combo, translated_only_check>>
    /\ WindowFilter
    /\ UNCHANGED <<api, run>>

\* import_file: the table is emptied, then filled when load_file succeeds
UImport ==
    /\ Idle
    /\ \E path \in Paths : LoadFile(path)
    /\ translation_table' =
          IF last'.ret THEN Rows(translation_entries', AllPositions(translation_entries'))
          ELSE <<>>
    /\ stats' = IF last'.ret THEN update_translation_stats(translation_entries') ELSE stats
    /\ chart' = IF last'.ret THEN update_translation_stats(translation_entries') ELSE chart
    /\ UNCHANGED <<is_translating, translation_queue, pending, search_edit, category_combo,
                   translated_only_check, untranslated_only_check, hist>>
    /\ UNCHANGED <<api, run>>

\* the store after update_xml_from_table; the rest of the handler is untouched
StoreFromTable(table) ==
    /\ translation_entries' =
          UpdateXmlFromTable(translation_entries, id_to_entry_index, table, 1)
    /\ last_filter_result' =
          IF TableReachesStore(id_to_entry_index, table) THEN None ELSE last_filter_result
    /\ last_filter_params' =
          IF TableReachesStore(id_to_entry_index, table) THEN None ELSE last_filter_params
    /\ UNCHANGED <<files, file_path, xml_tree, language, translated_name, no_whitespace,
                   entry_types, id_to_entry_index, type_to_entries>>

\* mark_all_as_translated: the rows the scan collects
RowsToMark(table) ==
    {row \in 1..Len(table) :
        LET original == table[row].original
            translation == table[row].translation
            is_empty == strip(translation) = <<>>
            is_same_as_original == translation # <<>> /\ translation = original
            is_already_marked ==
                translation # <<>> /\ startswith(strip(translation), Sentinel)
        IN original # <<>> /\ (is_empty \/ is_same_as_original) /\ ~is_already_marked}

\* the table after setItem(row, 2, "[已标记] " + original) on the given rows
MarkedTable(table, rows) ==
    [row \in 1..Len(table) |->
        IF row \in rows /\ table[row].original # <<>>
        THEN [table[row] EXCEPT !.translation = MarkText(table[row].original)]
        ELSE table[row]]

\* mark_all_as_translated, run to its end without a cancel
UMarkAll ==
    /\ Idle
    /\ LET rows_to_mark == RowsToMark(translation_table) IN
       IF rows_to_mark # {}
       THEN /\ translation_table' = MarkedTable(translation_table, rows_to_mark)
            /\ StoreFromTable(translation_table')
            /\ stats' = update_translation_stats(translation_entries')
            /\ chart' = update_translation_stats(translation_entries')
       ELSE UNCHANGED <<translation_table, store, files, stats, chart>>
    /\ last' = Call("mark_all_as_translated", "", <<>>, TRUE, FALSE)
    /\ UNCHANGED <<is_translating, translation_queue, pending, search_edit, category_combo,
                   translated_only_check, untranslated_only_check, hist>>
    /\ UNCHANGED <<api, run>>

\* mark_selected_as_translated with a non-empty selection
UMarkSelected ==
    /\ Idle
    /\ \E selected_rows \in (SUBSET (1..Len(translation_table))) \ {{}} :
          IF \E row \in selected_rows : translation_table[row].original # <<>>
          THEN /\ translation_table' = MarkedTable(translation_table, selected_rows)
               /\ StoreFromTable(translation_table')
               /\ stats' = update_translation_stats(translation_entries')
               /\ chart' = IF translation_entries' # <<>>
                           THEN Recount(translation_entries')
                           ELSE update_translation_stats(translation_entries')
          ELSE UNCHANGED <<translation_table, store, files, stats, chart>>
    /\ last' = Call("mark_selected_as_translated", "", <<>>, TRUE, FALSE)
    /\ UNCHANGED <<is_translating, translation_queue, pending, search_edit, category_combo,
                   translated_only_check, untranslated_only_check, hist>>
    /\ UNCHANGED <<api, run>>

\* translate_all_items: the queue of (row, text) it builds
QueueOf(table, rows) ==
    LET needs(row) ==
            /\ table[row].original # <<>>
            /\ (table[row].translation = <<>>
                \/ table[row].translation = table[row].original)
        picked == SelectSeq([row \in 1..Len(table) |-> row],
                            LAMBDA row : row \in rows /\ needs(row))
    IN [k \in 1..Len(picked) |-> [row |-> picked[k], text |-> table[picked[k]].original]]

\* sys.getrecursionlimit() of the interpreter, the Python frames a thread may
\* nest: 1000 by default, here scaled down with the length of the documents
RecursionLimit == 25

\* start_translation, were every item of the queue handed to the translator
\* at once
StartTranslationAtOnce(handler, queue) ==
    /\ is_translating' = TRUE
    /\ translation_queue' = Tail(queue)
    /\ pending' = Some(Head(queue))
    /\ run' = [queued |-> queue, issued |-> queue, outs |-> <<>>,
               stack |-> <<handler, "start_translation", "translate",
                           "process_with_placeholder_protection">>,
               crashed |-> FALSE]

\* start_translation with a queue that is not empty: the first item goes to
\* translator.translate, which runs in the caller's thread
StartTranslation(handler, queue) ==
    /\ is_translating' = TRUE
    /\ translation_queue' = Tail(queue)
    /\ pending' = Some(Head(queue))
    /\ run' = [queued |-> queue, issued |-> <<Head(queue)>>, outs |-> <<>>,
               stack |-> <<handler, "start_translation", "translate",
                           "process_with_placeholder_protection">>,
               crashed |-> FALSE]

\* translate_all_items followed by start_translation
UTranslateAll ==
    /\ Idle
    /\ translation_entries # <<>>
    /\ LET queue == QueueOf(translation_table, 1..Len(translation_table)) IN
       IF queue # <<>>
       THEN StartTranslation("translate_all_items", queue)
       ELSE /\ translation_queue' = queue
            /\ UNCHANGED <<is_translating, pending, run>>
    /\ last' = Call("translate_all_items", "", <<>>, TRUE, FALSE)
    /\ UNCHANGED <<files, store, translation_table, search_edit, category_combo,
                   translated_only_check, untranslated_only_check, stats, chart, hist>>
    /\ UNCHANGED api

\* translate_selected_items followed by start_translation; the queue is in
\* the iteration order of the set of selected rows, here ascending
UTranslateSelected ==
    /\ Idle
    /\ translation_entries # <<>>
    /\ \E selected_rows \in SUBSET (1..Len(translation_table)) :
          IF selected_rows = {}
          THEN UNCHANGED <<is_translating, translation_queue, pending, run>>
          ELSE LET queue == QueueOf(translation_table, selected_rows) IN
               IF queue # <<>>
               THEN StartTranslation("translate_selected_items", queue)
               ELSE /\ translation_queue' = queue
                    /\ UNCHANGED <<is_translating, pending, run>>
    /\ last' = Call("translate_selected_items", "", <<>>, TRUE, FALSE)
    /\ UNCHANGED <<files, store, translation_table, search_edit, category_combo,
                   translated_only_check, untranslated_only_check, stats, chart, hist>>
    /\ UNCHANGED api

\* on_translation_completed: the first row whose original is original_text
TableWithResult(table, original_text, translated_text) ==
    LET hits == {row \in 1..Len(table) : table[row].original = original_text} IN
    IF hits = {} THEN table
    ELSE [table EXCEPT ![Min(hits)].translation = translated_text]

\* what the _do_translate calls of the window's translator can return: ""
\* only, as long as no key is set
BackendReturnsWith(key) == IF Truthy(key) THEN BackendReturns ELSE {<<>>}

\* the frames one more queue item nests on the frames of the item before
CallbackFrames ==
    <<"on_translation_completed", "translate", "process_with_placeholder_protection">>

\* the interpreter raises RecursionError in a slot and the process ends
Crashed(outs) == [run EXCEPT !.outs = outs, !.crashed = TRUE]

\* test_text of test_api_connection
TestText ==
    <<"T","h","i","s"," ","i","s"," ","a"," ","t","e","s","t"," ",
      "m","e","s","s","a","g","e",".">>

\* test_api_connection: the two handlers are disconnected, the test callbacks
\* connected, and the test text goes to translator.translate
UTestApi ==
    /\ Idle
    /\ ~run.crashed
    /\ pending' = Some([row |-> 0, text |-> TestText])
    /\ run' = [queued |-> <<>>, issued |-> <<>>, outs |-> <<>>,
               stack |-> <<"test_api_connection", "translate",
                           "process_with_placeholder_protection">>,
               crashed |-> FALSE]
    /\ last' = Call("test_api_connection", "", <<>>, TRUE, FALSE)
    /\ UNCHANGED <<files, store, translation_table, is_translating, translation_queue,
                   search_edit, category_combo, translated_only_check,
                   untranslated_only_check, stats, chart, hist>>
    /\ UNCHANGED api

\* the pending call is the one test_api_connection made
TestPending == run.stack # <<>> /\ Head(run.stack) = "test_api_connection"

\* on_translation_completed, were a callback acted upon whatever the driver's state
ReturnsNever == FALSE

\* on_translation_completed: "if not self.is_translating: return"
ReturnsAtOnce == ~is_translating

\* the backend answers the pending call; translation_completed is emitted
\* inside translate and on_translation_completed runs in the emitter's frame.
\* In a connection test that succeeds the signal reaches on_api_test_success
\* only; in one that fails, error_occurred reaches on_api_test_error, which
\* connects on_translation_completed again before translation_completed is
\* emitted with the empty result
UCompleted ==
    /\ pending # None
    /\ ~run.crashed
    /\ \E outs \in [1..BackendCalls(pending[1].text) -> BackendReturnsWith(api_key)] :
          LET translated_text == process_with_placeholder_protection(pending[1].text, outs)
              depth == Len(run.stack)
          IN
          IF TestPending /\ translated_text # <<>>
          THEN /\ pending' = None
               /\ run' = [run EXCEPT !.outs = outs, !.stack = <<>>]
               /\ last' = Call("on_api_test_success", "", <<>>, TRUE, FALSE)
               /\ UNCHANGED <<translation_table, store, files, stats, chart,
                              is_translating, translation_queue>>
          ELSE IF ReturnsAtOnce
          THEN /\ pending' = None
               /\ run' = [run EXCEPT !.outs = outs, !.stack = <<>>]
               /\ last' = Call("on_translation_completed", "", <<>>, TRUE, FALSE)
               /\ UNCHANGED <<translation_table, store, files, stats, chart,
                              is_translating, translation_queue>>
          ELSE IF depth + 1 > RecursionLimit
          THEN /\ run' = Crashed(outs)
               /\ last' = Call("on_translation_completed", "", <<>>, FALSE, TRUE)
               /\ UNCHANGED <<translation_table, store, files, stats, chart,
                              is_translating, translation_queue, pending>>
          ELSE IF depth + 2 > RecursionLimit
          THEN /\ translation_table' =
                     TableWithResult(translation_table, pending[1].text, translated_text)
               /\ run' = Crashed(outs)
               /\ last' = Call("on_translation_completed", "", <<>>, FALSE, TRUE)
               /\ UNCHANGED <<store, files, stats, chart, is_translating,
                              translation_queue, pending>>
          ELSE /\ translation_table' =
                     TableWithResult(translation_table, pending[1].text, translated_text)
               /\ StoreFromTable(translation_table')
               /\ stats' = update_translation_stats(translation_entries')
               /\ chart' = IF translation_entries' # <<>>
                           THEN Recount(translation_entries')
                           ELSE update_translation_stats(translation_entries')
               /\ IF translation_queue # <<>>
                  THEN IF depth + Len(CallbackFrames) > RecursionLimit
                       THEN /\ translation_queue' = Tail(translation_queue)
                            /\ run' = Crashed(outs)
                            /\ last' = Call("on_translation_completed", "", <<>>, FALSE, TRUE)
                            /\ UNCHANGED <<is_translating, pending>>
                       ELSE /\ pending' = Some(Head(translation_queue))
                            /\ translation_queue' = Tail(translation_queue)
                            /\ run' = [run EXCEPT
                                          !.issued = Append(@, Head(translation_queue)),
                                          !.outs = outs,
                                          !.stack = @ \o CallbackFrames]
                            /\ last' = Call("on_translation_completed", "", <<>>, TRUE, FALSE)
                            /\ UNCHANGED is_translating
                  ELSE /\ is_translating' = FALSE
                       /\ pending' = None
                       /\ run' = [run EXCEPT !.outs = outs, !.stack = <<>>]
                       /\ last' = Call("on_translation_completed", "", <<>>, TRUE, FALSE)
                       /\ UNCHANGED translation_queue
    /\ UNCHANGED <<search_edit, category_combo, translated_only_check,
                   untranslated_only_check, hist>>
    /\ UNCHANGED api

\* documents with a repeated tag, with the same text under two tags, with a
\* text that carries the sentinel and with an element without text
WindowNodePool ==
    {Elem(T_gun, Some(S_Gun)), Elem(T_zz, Some(S_Gun)), Elem(T_a, Some(S_marked)),
     Elem(T_a, None)}

WindowDocPool ==
    {[tag |-> <<"i","n","f","o","t","e","x","t","s">>, attrib |-> a, children |-> c] :
        a \in AttribPool, c \in SeqsUpTo(WindowNodePool, MaxEntries)}

\* the window with its translator, create_api("openai"), and a key in the
\* settings
InitUI ==
    /\ \E d \in WindowDocPool : files = DiskWith(d)
    /\ InitWindow
    /\ api_type = "OpenAI"
    /\ api_key = Some(<<"k">>)

NextUI ==
    \/ UImport
    \/ USearch
    \/ UCheckTranslated
    \/ UCheckUntranslated
    \/ UMarkAll
    \/ UMarkSelected
    \/ UTranslateAll
    \/ UTranslateSelected
    \/ UCompleted

SpecUI == InitUI /\ [][NextUI]_vars

\* str(i) for an index i
RECURSIVE Digits(_)
Digits(i) ==
    LET digit == <<"0","1","2","3","4","5","6","7","8","9">>
    IN IF i < 10 THEN <<digit[i + 1]>> ELSE Digits(i \div 10) \o <<digit[(i % 10) + 1]>>

LongQueue == 8

\* the tag of the i-th element of a long document
LongTag(i) == <<"t">> \o Digits(i)

\* its text: every second one ends with a bracket token
LongText(i) ==
    IF i % 2 = 0 THEN LongTag(i) \o <<" ", "[", "n", "]">> ELSE LongTag(i)

\* a document whose elements, all different, need more frames than the
\* interpreter allows when they are translated in one run
LongDoc ==
    [tag |-> <<"i","n","f","o","t","e","x","t","s">>,
     attrib |-> CHOOSE a \in AttribPool : TRUE,
     children |-> [i \in 1..LongQueue |-> Elem(LongTag(i), Some(LongText(i)))]]

\* the window with a long document on disk, with and without a key in the
\* settings
InitDriver ==
    /\ files = DiskWith(LongDoc)
    /\ InitWindow
    /\ api_type = "OpenAI"
    /\ api_key \in {Some(<<>>), Some(<<"k">>)}

NextDriver == UImport \/ UTranslateAll \/ UCompleted

SpecDriver == InitDriver /\ [][NextDriver]_vars

\* translator.translate returns: the call in flight is always answered
SpecDriverFair == SpecDriver /\ WF_vars(UCompleted)

\* documents with an entry whose text is the test text
TestNodePool == {Elem(T_a, Some(TestText)), Elem(T_gun, Some(S_Gun))}

TestDocPool ==
    {[tag |-> <<"i","n","f","o","t","e","x","t","s">>, attrib |-> a, children |-> c] :
        a \in AttribPool, c \in SeqsUpTo(TestNodePool, MaxEntries)}

\* the window with a key in the settings or with none
InitTest ==
    /\ \E d \in TestDocPool : files = DiskWith(d)
    /\ InitWindow
    /\ api_type = "OpenAI"
    /\ api_key \in {Some(<<>>), Some(<<"k">>)}

NextTest == UImport \/ UMarkSelected \/ UTranslateAll \/ UTestApi \/ UCompleted

\* the window with its connection test
SpecTest == InitTest /\ [][NextTest]_vars

\* what the user types into a translation cell
CellTexts == {<<>>, S_y}

\* a translation cell edited by hand: setData on the item, then itemChanged,
\* which is connected to update_translation_stats and to nothing else
UEditCell ==
    /\ Idle
    /\ \E row \in 1..Len(translation_table), text \in CellTexts :
          /\ text # translation_table[row].translation
          /\ translation_table' =
                [translation_table EXCEPT ![row].translation = text]
          /\ last' = Call("edit_cell", "", translation_table[row].id, TRUE, FALSE)
    /\ stats' = update_translation_stats(translation_entries)
    /\ chart' = update_translation_stats(translation_entries)
    /\ UNCHANGED <<files, store, is_translating, translation_queue, pending, search_edit,
                   category_combo, translated_only_check, untranslated_only_check, hist>>
    /\ UNCHANGED <<api, run>>

\* export_translation with a path chosen in the dialog
UExportTranslation ==
    /\ Idle
    /\ translation_entries # <<>>
    /\ \E path \in {"in.xml", ReadOnlyPath} : SaveXml(Some(path))
    /\ UNCHANGED <<ui, hist>>
    /\ UNCHANGED <<api, run>>

\* export_excel with a path chosen in the dialog
UExportExcel ==
    /\ Idle
    /\ translation_entries # <<>>
    /\ \E path \in {ExcelPath, ReadOnlyPath} : ExportToExcel(path)
    /\ UNCHANGED <<ui, hist>>
    /\ UNCHANGED <<api, run>>

\* the window on a disk that also has a place for the spreadsheet
InitEdit ==
    /\ \E d \in WindowDocPool :
          files = [p \in Paths \cup {ExcelPath} |->
                      IF p = ExcelPath THEN Absent ELSE DiskWith(d)[p]]
    /\ InitWindow
    /\ api_type = "OpenAI"
    /\ api_key = Some(<<"k">>)

NextEdit == UImport \/ UEditCell \/ UExportTranslation \/ UExportExcel

\* the window used to load, edit by hand and export
SpecEdit == InitEdit /\ [][NextEdit]_vars

\* translate_selected, were the result stored as the entry's source text
StoredAsOriginal(entry, translation) == [entry EXCEPT !.original = translation]

\* entry['translation'] = translation
StoredAsTranslation(entry, translation) == [entry EXCEPT !.translation = translation]

\* the translator_func given to translate_selected: what it returns for a text
TranslatorFuncs == {"y", "blank", "echo", "raise"}

CallFunc(translator_func, text) ==
    CASE translator_func = "y" -> S_y
      [] translator_func = "blank" -> S_blank
      [] OTHER -> text

\* translate_selected: the loop over indices, until its end or an exception
RECURSIVE TranslateSelectedLoop(_, _, _, _)
TranslateSelectedLoop(entries, indices, i, translator_func) ==
    IF i > Len(indices) THEN [entries |-> entries, raised |-> FALSE]
    ELSE LET idx == indices[i] IN
         IF idx < 0 \/ idx >= Len(entries)
         THEN TranslateSelectedLoop(entries, indices, i + 1, translator_func)
         ELSE LET original_text == entries[idx + 1].original IN
              IF strip(original_text) = <<>>
              THEN TranslateSelectedLoop(entries, indices, i + 1, translator_func)
              ELSE IF translator_func = "raise"
              THEN [entries |-> entries, raised |-> TRUE]
              ELSE LET translation == CallFunc(translator_func, original_text) IN
                   IF strip(translation) # <<>>
                   THEN TranslateSelectedLoop(
                            [entries EXCEPT
                                ![idx + 1] = StoredAsTranslation(entries[idx + 1],
                                                                 translation)],
                            indices, i + 1, translator_func)
                   ELSE TranslateSelectedLoop(entries, indices, i + 1, translator_func)

\* translate_selected(indices, translator_func)
TranslateSelected(indices, translator_func) ==
    /\ IF translation_entries = <<>>
       THEN /\ last' = Call("translate_selected", "", <<>>, FALSE, TRUE)
            /\ UNCHANGED translation_entries
       ELSE LET done == TranslateSelectedLoop(translation_entries, indices, 1,
                                              translator_func)
            IN /\ translation_entries' = done.entries
               /\ last' = Call("translate_selected", "", <<>>, TRUE, done.raised)
    /\ UNCHANGED <<files, file_path, xml_tree, language, translated_name, no_whitespace,
                   entry_types, id_to_entry_index, type_to_entries,
                   last_filter_result, last_filter_params>>

\* lists of positions, some of them outside the entry list
IndexLists == {<<0>>, <<1, 0>>, <<-1, 2, 1>>}

FrameDocPool ==
    {[tag |-> <<"i","n","f","o","t","e","x","t","s">>, attrib |-> a, children |-> c] :
        a \in AttribPool,
        c \in {<<Elem(T_gun, Some(S_Gun)), Elem(T_a, None)>>,
               <<Elem(T_gun, Some(S_Gun)), Elem(T_gun, Some(S_marked))>>}}

FrameSheet ==
    ExcelFile(AllHeaders,
              <<SheetRow(StrCell(T_gun), StrCell(T_gun), StrCell(S_Gun), StrCell(S_y)),
                SheetRow(StrCell(T_zz), StrCell(T_zz), EmptyCell, StrCell(S_y))>>)

\* the window and its store, with a spreadsheet to import on the disk
InitFrame ==
    /\ \E d \in FrameDocPool :
          files = [p \in Paths \cup {ExcelPath} |->
                      IF p = ExcelPath THEN FrameSheet ELSE DiskWith(d)[p]]
    /\ InitWindow
    /\ api_type = "OpenAI"
    /\ api_key = Some(<<"k">>)

\* the calls made on the handler from outside the window's handlers are
\* counted, and at most MaxCalls of them are made
MaxCalls == 3

Counted ==
    /\ Idle
    /\ saves < MaxCalls
    /\ saves' = saves + 1
    /\ UNCHANGED <<ui, loaded, since_load>>
    /\ UNCHANGED <<api, run>>

FUpdate ==
    /\ Counted
    /\ \E id \in IdPool, t \in UpdateTexts : UpdateTranslation(id, t)

FImport == Counted /\ ImportFromExcel(ExcelPath)

FExportTranslation ==
    /\ Counted
    /\ translation_entries # <<>>
    /\ SaveXml(Some("in.xml"))

FExportExcel ==
    /\ Counted
    /\ translation_entries # <<>>
    /\ ExportToExcel(ExcelPath)

\* filter_entries(translated_only=...) and filter_entries(untranslated_only=...)
FFilter ==
    /\ Counted
    /\ \E only \in BOOLEAN :
          FilterEntries(FilterParams(None, None, only, None, ~only))

FTranslateSelected ==
    /\ Counted
    /\ \E indices \in IndexLists, translator_func \in TranslatorFuncs :
          TranslateSelected(indices, translator_func)

NextFrame ==
    \/ UImport
    \/ FUpdate
    \/ FImport
    \/ FTranslateSelected
    \/ FFilter
    \/ FExportTranslation
    \/ FExportExcel
    \/ UMarkSelected
    \/ UTranslateAll
    \/ UCompleted

\* every operation that touches the entries, on one store
SpecFrame == InitFrame /\ [][NextFrame]_vars


---------------------------------------------------------------------------
(* The translators: the backend variants of TranslationAPI and the         *)
(* TranslatorManager, each called with the answers of the HTTP server      *)

\* requests.post raises
Raise == [kind |-> "raise", status |-> 0, body |-> "", content |-> <<>>]

\* the server answers; body is "message" for the documented shape carrying
\* content, "stub" for that shape carrying the request text followed by "*",
\* "echo" for that shape carrying the request text as it is,
\* "no_text" for the outer list without the inner text, "empty" for a JSON
\* object without the expected keys, "not_json" otherwise
Response(status, body, content) ==
    [kind |-> "response", status |-> status, body |-> body, content |-> content]

\* what one _do_translate call did: its return value, the HTTP requests it
\* issued, the error_occurred signals it emitted and the path it took
Done(ret, requests, errors, how) ==
    [ret |-> ret, requests |-> requests, errors |-> errors, how |-> how]

\* the content of a well-formed answer to the request for text
ContentOf(resp, text) ==
    CASE resp.body = "stub" -> text \o <<"*">>
      [] resp.body = "echo" -> text
      [] OTHER -> resp.content

\* OpenAITranslator, ClaudeTranslator, OpenRouterTranslator and
\* DeepSeekTranslator._do_translate(text)
ApiDoTranslate(variant, key, text, resp) ==
    IF ~Truthy(key) THEN Done(<<>>, 0, 1, "nokey")
    ELSE IF resp.kind = "raise" THEN Done(<<>>, 1, 1, "exception")
    ELSE IF resp.status >= 400 /\ resp.status < 600 THEN Done(<<>>, 1, 1, "status")
    ELSE CASE resp.body = "not_json" -> Done(<<>>, 1, 1, "exception")
           [] resp.body \in {"message", "stub", "echo"} ->
                 Done(strip(ContentOf(resp, text)), 1, 0, "ok")
           [] resp.body = "no_text" ->
                 IF variant = "claude" THEN Done(<<>>, 1, 0, "shape")
                 ELSE Done(<<>>, 1, 1, "exception")
           [] OTHER -> Done(<<>>, 1, 1, "shape")

\* TranslationAPI.create_api(api_type): the class it instantiates
create_api(type) ==
    CASE type = "OpenAI" -> "openai"
      [] type = "Claude" -> "claude"
      [] type = "DeepSeek" -> "deepseek"
      [] type = "OpenRouter" -> "openrouter"
      [] OTHER -> "openai"

ManagerTypes == {"OpenAI", "Claude", "DeepSeek", "OpenRouter"}

\* TranslatorManager._do_translate(text) and the _translate_with_ method it calls
ManagerDoTranslate(type, key, text, resp) ==
    IF type \notin ManagerTypes THEN Done(text, 0, 0, "unconfigured")
    ELSE IF ~Truthy(key) THEN Done(text, 0, 1, "nokey")
    ELSE IF resp.kind = "raise" THEN Done(text, 1, 1, "exception")
    ELSE IF resp.status # 200 THEN Done(text, 1, 1, "status")
    ELSE CASE resp.body = "not_json" -> Done(text, 1, 1, "exception")
           [] resp.body \in {"message", "stub", "echo"} ->
                 Done(strip(ContentOf(resp, text)), 1, 0, "ok")
           [] resp.body = "no_text" ->
                 IF type = "Claude" THEN Done(<<>>, 1, 0, "shape")
                 ELSE Done(text, 1, 1, "exception")
           [] OTHER -> IF type = "OpenAI" THEN Done(text, 1, 1, "exception")
                       ELSE Done(text, 1, 1, "shape")

MarkerPrefix == <<"_","_","P","L","A","C","E","H","O","L","D","E","R","_">>

\* f"__PLACEHOLDER_{i}__"
Marker(i) == MarkerPrefix \o Digits(i) \o <<"_","_">>

\* re.finditer(placeholder_pattern, text): match.group(0) of every match, in order
RECURSIVE AllMatches(_, _)
AllMatches(text, from) ==
    LET m == NextMatch(text, from) IN
    IF m = None THEN <<>>
    ELSE <<SubSeq(text, m[1].start, m[1].end)>> \o AllMatches(text, m[1].end + 1)

\* the list sorted the other way: shorter first
RECURSIVE SortShortestFirst(_)
SortShortestFirst(list) ==
    IF list = <<>> THEN <<>>
    ELSE LET rest == SortShortestFirst(SubSeq(list, 1, Len(list) - 1))
             x == list[Len(list)]
             before == SelectSeq(rest, LAMBDA y : Len(y.placeholder) <= Len(x.placeholder))
             after == SelectSeq(rest, LAMBDA y : Len(y.placeholder) > Len(x.placeholder))
         IN before \o <<x>> \o after

\* list.sort(key=len, reverse=True) by insertion: longer first, equal lengths
\* in their given order
RECURSIVE SortLongestFirst(_)
SortLongestFirst(list) ==
    IF list = <<>> THEN <<>>
    ELSE LET rest == SortLongestFirst(SubSeq(list, 1, Len(list) - 1))
             x == list[Len(list)]
             before == SelectSeq(rest, LAMBDA y : Len(y.placeholder) >= Len(x.placeholder))
             after == SelectSeq(rest, LAMBDA y : Len(y.placeholder) < Len(x.placeholder))
         IN before \o <<x>> \o after

\* protect_placeholders: the loop that stores the mapping and replaces
RECURSIVE ProtectLoop(_, _, _, _)
ProtectLoop(placeholder_list, k, map, processed_text) ==
    IF k > Len(placeholder_list) THEN [text |-> processed_text, placeholders |-> map]
    ELSE LET marker == Marker(placeholder_list[k].i)
         IN ProtectLoop(placeholder_list, k + 1,
                        MapPut(map, marker, placeholder_list[k].placeholder),
                        Replace(processed_text, placeholder_list[k].placeholder, marker))

\* protect_placeholders(text): the processed text and self.placeholders
protect_placeholders(text) ==
    LET found == AllMatches(text, 1)
        placeholder_list == [k \in 1..Len(found) |-> [placeholder |-> found[k], i |-> k - 1]]
    IN ProtectLoop(SortLongestFirst(placeholder_list), 1, <<>>, text)

\* restore_placeholders: the loop over self.placeholders.items()
RECURSIVE RestoreLoop(_, _, _)
RestoreLoop(map, k, result) ==
    IF k > Len(map) THEN result
    ELSE RestoreLoop(map, k + 1, Replace(result, map[k].key, map[k].value))

\* restore_placeholders(translated_text)
restore_placeholders(map, translated_text) ==
    ApplyCorrections(RestoreLoop(map, 1, translated_text), 1)

\* the texts handed to _do_translate, were the markers substituted first
SentTextsProtected(text) == <<protect_placeholders(text).text>>

\* the texts handed to _do_translate, in call order
SentTexts(text) ==
    IF NextMatch(text, 1) = None THEN <<text>>
    ELSE LET runs == SelectSeq(SplitSegments(text, 1, <<>>), LAMBDA g : g.type = "text")
         IN [n \in 1..Len(runs) |-> runs[n].content]

\* TranslatorManager.translate: the texts handed to _do_translate
ManagerSentTexts(text) == IF strip(text) = <<>> THEN <<>> ELSE SentTexts(text)

\* TranslatorManager.translate(text): the text it returns
ManagerTranslate(text, outs) ==
    IF strip(text) = <<>> THEN <<>>
    ELSE IF NextMatch(text, 1) = None THEN outs[1]
    ELSE ApplyCorrections(JoinSegments(SplitSegments(text, 1, <<>>), 1, outs, 1), 1)

\* the record of a translate call that has handed nothing to _do_translate yet
Begun(op, text, sent) ==
    [op |-> op, text |-> text, result |-> <<>>, sent |-> sent, outs |-> <<>>,
     how |-> <<>>, replies |-> <<>>, requests |-> 0, errors |-> 0,
     raised |-> FALSE, completed |-> None, done |-> FALSE]

\* the record after one more _do_translate call
Handed(c, did, reply) ==
    [c EXCEPT !.outs = Append(@, did.ret), !.how = Append(@, did.how),
              !.replies = Append(@, reply), !.requests = @ + did.requests,
              !.errors = @ + did.errors]

\* the record of a call that has returned result; emitted tells whether
\* translation_completed was emitted
Returned(c, result, emitted) ==
    [c EXCEPT !.result = result, !.done = TRUE,
              !.completed = IF emitted THEN Some(<<c.text, result>>) ELSE None]

T_example ==
    <<"H","e","l","l","o"," ","[","n","a","m","e","]",",",
      " ","w","e","l","c","o","m","e"," ","t","o"," ",
      "[","l","o","c","a","t","i","o","n","]","!">>

\* texts without a token, blank, with tokens next to each other and apart,
\* with a token the corrections table rewrites, and the sentence of the manual
TranslateTexts ==
    { <<>>, <<" ">>, S_Gun, <<"[","a","]"," ","[","b","]">>,
      <<"a"," ","[","b","]"," ","c">>, <<"[","xing4","ming2","]","a">>,
      <<"[","a","]">>, T_example }

ResponsePool ==
    { Raise,
      Response(200, "message", <<" ", "y", " ">>),
      Response(200, "stub", <<>>),
      Response(200, "echo", <<>>),
      Response(200, "no_text", <<>>),
      Response(200, "empty", <<>>),
      Response(200, "not_json", <<>>),
      Response(302, "message", S_y),
      Response(404, "empty", <<>>) }

ApiTypePool == ManagerTypes \cup {"None"}

ApiKeyPool == {None, Some(<<>>), Some(<<"k">>)}

\* TranslatorManager.set_api, or create_api followed by set_api_key
ASetApi ==
    /\ call.done
    /\ \E type \in ApiTypePool, key \in ApiKeyPool :
          /\ <<type, key>> # <<api_type, api_key>>
          /\ api_type' = type
          /\ api_key' = key
    /\ UNCHANGED <<files, store, last, ui, hist, placeholders, call, run>>

\* a translate call that has made all its _do_translate calls returns
Finish(c) ==
    IF Len(c.outs) < Len(c.sent) THEN c
    ELSE IF c.op = "TranslationAPI.translate"
         THEN Returned(c, process_with_placeholder_protection(c.text, c.outs), TRUE)
         ELSE Returned(c, ManagerTranslate(c.text, c.outs),
                       ManagerTranslate(c.text, c.outs) # <<>>)

\* translate(text) of the backend variant create_api gives is called
ATranslate ==
    /\ call.done
    /\ \E text \in TranslateTexts :
          call' = Finish(Begun("TranslationAPI.translate", text, SentTexts(text)))
    /\ UNCHANGED <<files, store, last, ui, hist, api_type, api_key, placeholders, run>>

\* TranslatorManager.translate(text) is called
MTranslate ==
    /\ call.done
    /\ \E text \in TranslateTexts :
          call' = Finish(Begun("TranslatorManager.translate", text, ManagerSentTexts(text)))
    /\ UNCHANGED <<files, store, last, ui, hist, api_type, api_key, placeholders, run>>

\* the call in progress hands its next text to _do_translate
ADoTranslate ==
    /\ ~call.done
    /\ \E reply \in ResponsePool :
          LET text == call.sent[Len(call.outs) + 1]
              did == IF call.op = "TranslationAPI.translate"
                     THEN ApiDoTranslate(create_api(api_type), api_key, text, reply)
                     ELSE ManagerDoTranslate(api_type, api_key, text, reply)
          IN call' = Finish(Handed(call, did, reply))
    /\ UNCHANGED <<files, store, last, ui, hist, api_type, api_key, placeholders, run>>

MaxTextLen == 5

CodecAlphabet == {"[", "]", "a", "xing4", "ming2"}

\* two tokens of which one begins like the other
T_items ==
    <<"[","i","t","e","m","]"," ","[","i","t","e","m","_","r","a","r","e","]">>

\* every text of the alphabet up to the bound; texts with a repeated token,
\* tokens of different lengths, a token inside a token, and a marker
CodecTexts ==
    SeqsUpTo(CodecAlphabet, MaxTextLen)
        \cup { T_items, T_example,
               <<"[","a","]","a","[","a","a","]","[","a","]">>,
               <<"[","a","]","[","[","a","]">>,
               Marker(0) \o <<"[","a","]">> }

\* protect_placeholders(text) is called on a manager that has made no call yet
MProtect ==
    /\ call.op = "none"
    /\ \E text \in CodecTexts :
          LET done == protect_placeholders(text) IN
          /\ placeholders' = done.placeholders
          /\ call' = Returned(Begun("protect_placeholders", text, <<>>), done.text, FALSE)
    /\ UNCHANGED <<files, store, last, ui, hist, api_type, api_key, run>>

\* restore_placeholders is called with the text protect_placeholders returned
MRestore ==
    /\ call.op = "protect_placeholders"
    /\ call' = Returned(Begun("restore_placeholders", call.result, <<>>),
                        restore_placeholders(placeholders, call.result), FALSE)
    /\ UNCHANGED <<files, store, last, ui, hist, api_type, api_key, placeholders, run>>

NextCodec == MProtect \/ MRestore

\* the translators do not read the files: one document on disk
ApiDocPool ==
    {[tag |-> <<"i","n","f","o","t","e","x","t","s">>, attrib |-> a,
      children |-> <<Elem(T_a, None)>>] : a \in AttribPool}

InitApi == InitWith(ApiDocPool)

NextApi == ASetApi \/ ATranslate \/ MTranslate \/ ADoTranslate

SpecApi == InitApi /\ [][NextApi]_vars

SpecCodec == InitApi /\ [][NextCodec]_vars

---------------------------------------------------------------------------
(* Properties of the store                                                 *)

StoreData == <<xml_tree, language, translated_name, no_whitespace,
               translation_entries, id_to_entry_index, type_to_entries>>

Triples(entries) ==
    [i \in 1..Len(entries) |->
        <<entries[i].type, entries[i].id, entries[i].translation>>]

\* C2: a load_file that fails returns False, reports an error and leaves the
\* store as it was: the entries, both indices, the root attributes, the tree
\* and the remembered file path that save_xml() without argument writes to.
C2_FailedLoadKeepsStore ==
    [][(last'.op = "load_file" /\ ~last'.ret)
          => (last'.err /\ UNCHANGED <<file_path, StoreData>>)]_vars

\* C3: every successful save_xml writes each comment of the loaded document
\* at its original ordinal position among the root's children, whatever
\* save_xml calls, successful or failed, came before.
C3_SaveKeepsComments ==
    (last.op = "save_xml" /\ last.ret)
        => CommentsOf(files[last.path].doc[1]) = CommentsOf(loaded[1])

\* C4: after a successful load_file and any update_translation calls,
\* save_xml(path) followed by load_file(path) succeeds and yields the same
\* (type, id, translation) triples in the same order, and the saved document
\* has the comments of the loaded one at the same ordinal positions.
C4_SaveLoadRoundTrip ==
    [][(since_load = "saved" /\ last'.op = "load_file" /\ last'.path = last.path)
          => /\ last'.ret
             /\ Triples(translation_entries') = Triples(translation_entries)
             /\ CommentsOf(files[last.path].doc[1]) = CommentsOf(loaded[1])]_vars

\* C4 witness: the round trip has been made on a document with two comments
\* and an entry whose translation was set before the save.
C4_Witness ==
    /\ since_load = "reloaded"
    /\ Len(CommentsOf(xml_tree[1])) = 2
    /\ \E i \in 1..Len(translation_entries) : translation_entries[i].translation = S_y

\* C5: after a successful load_file no two entries have the same id.
C5_IdsUnique ==
    (last.op = "load_file" /\ last.ret)
        => \A i, j \in 1..Len(translation_entries) :
              translation_entries[i].id = translation_entries[j].id => i = j

\* C6: a successful load_file creates exactly one entry per non-comment child
\* of the root, in document order, with type = id = the tag, original = the
\* text ("" if none) and translation = original; comments create no entry
\* and the entries of an earlier load are replaced.
C6_LoadBuildsEntries ==
    (last.op = "load_file" /\ last.ret)
        => LET E == SelectSeq(files[last.path].doc[1].children,
                              LAMBDA n : n.kind = "elem")
               text(n) == IF n.text = None THEN <<>> ELSE n.text[1]
           IN /\ Len(translation_entries) = Len(E)
              /\ \A i \in 1..Len(E) :
                    translation_entries[i] =
                        [type |-> E[i].tag, id |-> E[i].tag,
                         original |-> text(E[i]), translation |-> text(E[i])]

\* C6 witness: a second load, of a file written by save_xml, with a comment
\* in it, an entry without text and an entry with text.
C6_Witness ==
    /\ last.op = "load_file" /\ last.ret /\ last.path = "bad.xml"
    /\ Len(CommentsOf(xml_tree[1])) >= 1
    /\ \E i, j \in 1..Len(translation_entries) :
          /\ translation_entries[i].original = <<>>
          /\ translation_entries[j].original # <<>>

\* C7: update_translation with an id absent from the id index returns False
\* and changes no entry and no index; with a known id it returns True and
\* changes only the translation of the one entry the id index maps the id to.
C7_UpdateTranslation ==
    [][(last'.op = "update_translation")
          => /\ UNCHANGED <<id_to_entry_index, type_to_entries>>
             /\ IF last'.id \in DOMAIN id_to_entry_index
                THEN /\ last'.ret
                     /\ Len(translation_entries') = Len(translation_entries)
                     /\ \A i \in 1..Len(translation_entries) :
                           IF i = id_to_entry_index[last'.id]
                           THEN \E t \in UpdateTexts :
                                   translation_entries'[i] =
                                      [translation_entries[i] EXCEPT !.translation = t]
                           ELSE translation_entries'[i] = translation_entries[i]
                ELSE /\ ~last'.ret
                     /\ UNCHANGED translation_entries]_vars

\* C7 witness: an update by an id that two entries carry has been made.
C7_Witness ==
    /\ last.op = "update_translation" /\ last.ret
    /\ \E i, j \in 1..Len(translation_entries) :
          /\ i < j
          /\ translation_entries[i].id = last.id
          /\ translation_entries[j].id = last.id
          /\ translation_entries[j].translation = S_y
          /\ translation_entries[i].translation # S_y

---------------------------------------------------------------------------
(* Properties of filter_entries                                            *)

\* C8: with at most one of translated_only / untranslated_only set,
\* filter_entries returns, in store order, exactly the entries that satisfy
\* every supplied predicate (type equal to entry_type; search_text a
\* case-insensitive substring of id, original or translation; a keyword of
\* item_category found in id or original; the translated or the untranslated
\* predicate), and the call changes no entry and no index.
C8_FilterReturnsMatches ==
    [][(last'.op = "filter_entries"
        /\ ~(last_filter_params'[1].translated_only
             /\ last_filter_params'[1].untranslated_only))
          => LET p == last_filter_params'[1]
                 blank(e) == \A k \in 1..Len(e.translation) : IsSpace(e.translation[k])
                 marked(e) == startswith(strip(e.translation), Sentinel)
                 found(text, e) ==
                    \E field \in {e.id, e.original, e.translation} :
                       contains(lower(text), lower(field))
                 keyword(cat, e) ==
                    /\ cat \in DOMAIN category_keywords
                    /\ \E w \in category_keywords[cat] :
                          contains(w, lower(e.id)) \/ contains(w, lower(e.original))
                 wanted(e) ==
                    /\ Truthy(p.entry_type) => e.type = p.entry_type[1]
                    /\ Truthy(p.search_text) => found(p.search_text[1], e)
                    /\ Truthy(p.item_category) => keyword(p.item_category[1], e)
                    /\ p.translated_only =>
                          ((e.translation # e.original /\ ~blank(e)) \/ marked(e))
                    /\ p.untranslated_only =>
                          ((blank(e) \/ e.translation = e.original) /\ ~marked(e))
                 positions == [i \in 1..Len(translation_entries) |-> i]
             IN /\ last_filter_result' =
                      Some(SelectSeq(positions, LAMBDA i : wanted(translation_entries[i])))
                /\ UNCHANGED <<translation_entries, id_to_entry_index, type_to_entries>>]_vars

\* C8 witness: a filter by type, search text and translated_only has returned
\* some but not all entries of the type.
C8_Witness ==
    /\ last.op = "filter_entries"
    /\ last_filter_params[1].entry_type = Some(T_gun)
    /\ last_filter_params[1].search_text = Some(S_GU)
    /\ last_filter_params[1].translated_only
    /\ ~last_filter_params[1].untranslated_only
    /\ Len(last_filter_result[1]) = 1
    /\ Len(type_to_entries[T_gun]) = 2


---------------------------------------------------------------------------
(* Properties of the main window                                           *)

StatusFlags(translated_only, untranslated_only) ==
    FilterParams(None, Some(search_edit),
                 translated_only,
                 IF category_combo = AllCategories THEN None ELSE Some(category_combo),
                 untranslated_only)

\* C1 as stated: for any store state, XMLHandler.filter_entries with
\* translated_only and untranslated_only both set returns the same entries,
\* in the same order, as the call with neither flag set.
C1_StoreFilterBothFlagsAsNeither ==
    FilterResult(translation_entries, type_to_entries, StatusFlags(TRUE, TRUE))
        = FilterResult(translation_entries, type_to_entries, StatusFlags(FALSE, FALSE))

\* C1 amended: after MainWindow.filter_entries has run with both status
\* boxes checked, the table shows, in store order, the entries that
\* XMLHandler.filter_entries returns with neither flag set.
C1_WindowFilterBothChecksAsNeither ==
    (last.op = "filter_entries" /\ translated_only_check /\ untranslated_only_check)
        => translation_table =
              Rows(translation_entries,
                   FilterResult(translation_entries, type_to_entries,
                                StatusFlags(FALSE, FALSE)))

\* both boxes checked over a store that holds a translated and an
\* untranslated entry, both shown
C1_Witness ==
    /\ last.op = "filter_entries"
    /\ translated_only_check /\ untranslated_only_check
    /\ Len(translation_table) = 2
    /\ \E i, j \in 1..Len(translation_entries) :
          /\ is_untranslated(translation_entries[i])
          /\ is_translated(translation_entries[j]) \/ is_marked(translation_entries[j])

\* C9: after mark_all_as_translated completes, update_translation_stats
\* reports translated_count = total_count over the whole store, whatever the
\* loaded store and the table view.
C9_MarkAllCompletesTheStore ==
    last.op = "mark_all_as_translated"
        => update_translation_stats(translation_entries)
              = Counts(Len(translation_entries), Len(translation_entries))

\* C10: the recount of on_translation_completed and of
\* mark_selected_as_translated (shown by the chart), update_translation_stats
\* (shown by the statistics widget) and the translated predicate of
\* filter_entries give the same translated count for the store.
C10_CountsAgree ==
    (last.op \in {"on_translation_completed", "mark_selected_as_translated"}
     /\ translation_entries # <<>>)
        => /\ chart = stats
           /\ stats.translated =
                 Len(FilterResult(translation_entries, type_to_entries,
                                  FilterParams(None, None, TRUE, None, FALSE)))


---------------------------------------------------------------------------
(* Properties of the spreadsheet exchange                                  *)

\* the rows of a sheet that give the id a non-blank translation
Listed(rows, id) ==
    {k \in 1..Len(rows) :
        /\ rows[k].id = StrCell(id)
        /\ rows[k].translation.kind = "str"
        /\ strip(rows[k].translation.value) # <<>>}

Max(S) == CHOOSE x \in S : \A y \in S : x >= y

\* C11: a successful import_from_excel overwrites the translation of exactly
\* the entries whose id the sheet lists with a non-blank translation, leaves
\* every other entry as it was, and reports as count the number of entries
\* it overwrote.
C11_ImportOverwritesListedEntries ==
    [][(last'.op = "import_from_excel" /\ last'.ret) =>
          LET rows == files[last'.path].doc[1].rows
              hit == {i \in 1..Len(translation_entries) :
                         Listed(rows, translation_entries[i].id) # {}}
          IN /\ Len(translation_entries') = Len(translation_entries)
             /\ \A i \in 1..Len(translation_entries) :
                   IF i \in hit
                   THEN translation_entries'[i] =
                           [translation_entries[i] EXCEPT !.translation =
                               rows[Max(Listed(rows, translation_entries[i].id))]
                                   .translation.value]
                   ELSE translation_entries'[i] = translation_entries[i]
             /\ UpdateLoop(translation_entries, id_to_entry_index,
                           MapLoop(rows, 1, <<>>), 1, 0).count = Cardinality(hit)
      ]_vars

C13_FailedImportChangesNothing ==
    [][(last'.op = "import_from_excel" /\ ~last'.ret) =>
          UNCHANGED <<translation_entries, entry_types, id_to_entry_index,
                      type_to_entries, xml_tree, file_path>>
      ]_vars

\* a failed import of a readable sheet with every column, in which a row
\* that would change an entry comes before the row that raises
C13_Witness ==
    /\ last.op = "import_from_excel" /\ ~last.ret
    /\ files[last.path].kind = "xlsx"
    /\ AllHeaders \subseteq files[last.path].doc[1].columns
    /\ LET rows == files[last.path].doc[1].rows IN
       \E k, j \in 1..Len(rows) :
          /\ k < j
          /\ RowRaises(rows[j])
          /\ InIndex(id_to_entry_index, ReadCell(rows[k].id))
          /\ rows[k].translation.kind = "str"
          /\ strip(rows[k].translation.value) # <<>>
          /\ translation_entries[id_to_entry_index[rows[k].id.value]].translation
                # rows[k].translation.value

(***************************************************************************)
(* Properties of the translators                                           *)
(***************************************************************************)

\* the paths of TranslatorManager._do_translate on which the backend is
\* unusable or its call fails
ManagerFailures == {"unconfigured", "nokey", "status", "exception"}

\* C14: TranslatorManager.translate never raises, and a call whose backend
\* calls all fail, or that is made while no usable backend is configured,
\* returns the text it was given, unchanged.
C14_FailedTranslateReturnsText ==
    [][(/\ call' # call
        /\ call'.op = "TranslatorManager.translate"
        /\ call'.done) =>
          /\ ~call'.raised
          /\ (/\ \A n \in 1..Len(call'.how) : call'.how[n] \in ManagerFailures
              /\ \/ call'.how # <<>>
                 \/ api_type \notin ManagerTypes
                 \/ ~Truthy(api_key))
                => call'.result = call'.text
      ]_vars

\* C15: a backend variant's _do_translate returns "" and emits
\* error_occurred once when the key is missing, the transport raises, the
\* status is not 2xx or the answer has not the documented shape, and issues
\* no request when the key is missing.
C15_BackendFailureIsEmptyAndReported ==
    [][(/\ call.op = "TranslationAPI.translate"
        /\ ~call.done
        /\ call'.op = call.op
        /\ Len(call'.outs) = Len(call.outs) + 1) =>
          LET n == Len(call'.outs)
              r == call'.replies[n]
              failed == \/ ~Truthy(api_key)
                        \/ r.kind = "raise"
                        \/ r.status \notin 200..299
                        \/ r.body \notin {"message", "stub", "echo"}
          IN failed =>
                /\ call'.outs[n] = <<>>
                /\ call'.errors = call.errors + 1
                /\ ~Truthy(api_key) => call'.requests = call.requests
      ]_vars

\* the runs of a text in order: every bracket token, and every non-empty
\* stretch of text before, between and after the tokens
RECURSIVE Pieces(_, _)
Pieces(text, from) ==
    LET m == NextMatch(text, from) IN
    IF m = None
    THEN IF from <= Len(text)
         THEN <<Segment("text", SubSeq(text, from, Len(text)))>> ELSE <<>>
    ELSE (IF m[1].start > from
          THEN <<Segment("text", SubSeq(text, from, m[1].start - 1))>> ELSE <<>>)
         \o <<Segment("placeholder", SubSeq(text, m[1].start, m[1].end))>>
         \o Pieces(text, m[1].end + 1)

\* the plain runs of a text in order; the whole text if it has no token
PlainRuns(text) ==
    IF NextMatch(text, 1) = None THEN <<text>>
    ELSE LET runs == SelectSeq(Pieces(text, 1), LAMBDA g : g.type = "text")
         IN [n \in 1..Len(runs) |-> runs[n].content]

\* the pieces joined in order, every plain run followed by "*"
RECURSIVE Starred(_, _)
Starred(pieces, k) ==
    IF k > Len(pieces) THEN <<>>
    ELSE (IF pieces[k].type = "text" THEN pieces[k].content \o <<"*">>
          ELSE pieces[k].content) \o Starred(pieces, k + 1)

\* the backend is the stub that appends "*" in every call of the translate
StubBackend ==
    \A n \in 1..Len(call.replies) :
        call.how[n] = "ok" /\ call.replies[n].body = "stub"

\* C16: with the stub backend, translate hands the plain runs of the text
\* to the backend in order (the whole text if it has no token) and returns
\* every run followed by "*" with every token unchanged in its place.
C16_SegmentAndSplice ==
    (/\ call.done
     /\ call.op \in {"TranslationAPI.translate", "TranslatorManager.translate"}
     /\ StubBackend) =>
        /\ call.sent = PlainRuns(call.text)
        /\ call.result = IF NextMatch(call.text, 1) = None THEN call.text \o <<"*">>
                         ELSE Starred(Pieces(call.text, 1), 1)

\* the example of the manual comes out as C16 says
C16_ExampleHolds ==
    (/\ call.done
     /\ call.op \in {"TranslationAPI.translate", "TranslatorManager.translate"}
     /\ call.text = T_example
     /\ Len(call.replies) = 3
     /\ StubBackend) =>
        call.result = Starred(Pieces(T_example, 1), 1)

\* s occurs in text
Contains(text, s) ==
    \E i \in 1..(Len(text) - Len(s) + 1) : SubSeq(text, i, i + Len(s) - 1) = s

\* C17 as stated: a backend variant's translate hands _do_translate the
\* text with a marker in place of every token.
C17_BackendSubstitutesMarkers ==
    (/\ call.op = "TranslationAPI.translate"
     /\ NextMatch(call.text, 1) # None) =>
        call.sent = <<protect_placeholders(call.text).text>>

\* C17: a backend variant's translate applies segment-and-splice: every
\* text it hands to _do_translate is a stretch of the input that holds no
\* bracket token and no marker, and the tokens of the input are in the
\* text it returns when every call succeeded.
C17_BackendSplitsAtTokens ==
    call.op = "TranslationAPI.translate" =>
        /\ \A n \in 1..Len(call.sent) :
              /\ NextMatch(call.sent[n], 1) = None
              /\ ~Contains(call.sent[n], MarkerPrefix)
              /\ Contains(call.text, call.sent[n])
        /\ (call.done /\ StubBackend) =>
              \A k \in 1..Len(Pieces(call.text, 1)) :
                  Pieces(call.text, 1)[k].type = "placeholder" =>
                      Contains(call.result,
                               ApplyCorrections(Pieces(call.text, 1)[k].content, 1))

\* a backend translate of a text with two tokens has returned after three
\* successful calls
C17_Witness ==
    /\ call.op = "TranslationAPI.translate"
    /\ call.done
    /\ Len(AllMatches(call.text, 1)) = 2
    /\ Len(call.sent) = 3
    /\ StubBackend

(***************************************************************************)
(* Properties of the marker codec                                          *)
(***************************************************************************)

CorrectionKeys == {Corrections[k][1] : k \in 1..Len(Corrections)}

\* C18: restore_placeholders of what protect_placeholders returned for a
\* text whose bracket tokens are not keys of the corrections table is that
\* text.
C18_RestoreOfProtectIsIdentity ==
    [][(/\ call.op = "protect_placeholders"
        /\ call'.op = "restore_placeholders"
        /\ \A k \in 1..Len(AllMatches(call.text, 1)) :
              AllMatches(call.text, 1)[k] \notin CorrectionKeys) =>
          call'.result = call.text
      ]_vars

\* the pieces joined in order, the n-th token replaced by the key of the
\* map entry f[n]
RECURSIVE Substituted(_, _, _, _, _)
Substituted(pieces, k, n, f, map) ==
    IF k > Len(pieces) THEN <<>>
    ELSE IF pieces[k].type = "text"
         THEN pieces[k].content \o Substituted(pieces, k + 1, n, f, map)
         ELSE map[f[n]].key \o Substituted(pieces, k + 1, n + 1, f, map)

\* C19: what protect_placeholders returns holds no match of the token
\* pattern and none of the tokens of the text, and is the text with every
\* token occurrence replaced by a marker that self.placeholders maps to
\* that token.
C19_ProtectHidesEveryToken ==
    call.op = "protect_placeholders" =>
        LET tokens == AllMatches(call.text, 1) IN
        /\ NextMatch(call.result, 1) = None
        /\ \A k \in 1..Len(tokens) : ~Contains(call.result, tokens[k])
        /\ \E f \in [1..Len(tokens) -> 1..Len(placeholders)] :
              /\ \A k \in 1..Len(tokens) :
                    /\ placeholders[f[k]].value = tokens[k]
                    /\ \E i \in 0..(Len(tokens) - 1) : placeholders[f[k]].key = Marker(i)
              /\ call.result = Substituted(Pieces(call.text, 1), 1, 1, f, placeholders)

\* protect_placeholders has returned for a text in which one token occurs
\* inside another, longer one
C19_Witness ==
    /\ call.op = "protect_placeholders"
    /\ LET tokens == AllMatches(call.text, 1) IN
       \E j, k \in 1..Len(tokens) :
          /\ Len(tokens[j]) < Len(tokens[k])
          /\ Contains(tokens[k], tokens[j])

(***************************************************************************)
(* Properties of the queue driver                                          *)
(***************************************************************************)

\* C20: a completion callback that runs while the queue is being worked
\* changes the table in the queued row only, and changes no store entry but
\* the one that has the id of the queued row.
C20_CompletionWritesQueuedRow ==
    [][(/\ last'.op = "on_translation_completed"
        /\ pending # None
        /\ is_translating) =>
          LET row == pending[1].row IN
          /\ \A r \in 1..Len(translation_table) :
                r # row => translation_table'[r] = translation_table[r]
          /\ \A i \in 1..Len(translation_entries) :
                translation_entries'[i] # translation_entries[i] =>
                    translation_entries[i].id = translation_table[row].id
      ]_vars

\* C21: once a queue run has begun, the driver eventually is idle again
\* with one translate call issued for every queued item, in queue order.
C21_EveryQueuedItemIsIssued ==
    (is_translating /\ run.queued # <<>>)
        ~> (~is_translating /\ pending = None /\ run.issued = run.queued)

\* the calls issued so far are the first items of the queue, in its order
C21_IssuedInQueueOrder ==
    /\ Len(run.issued) <= Len(run.queued)
    /\ run.issued = SubSeq(run.queued, 1, Len(run.issued))

\* C22: a translate call is issued only by start_translation while no call
\* is outstanding, or by the completion callback of the call issued last;
\* the call outstanding is the one issued last, and it is its result that a
\* callback applies.
C22_OneCallAtATime ==
    [][/\ pending # None => (run.issued # <<>> /\ pending[1] = run.issued[Len(run.issued)])
       /\ run'.issued # run.issued =>
             \/ /\ last'.op \in {"translate_all_items", "translate_selected_items"}
                /\ pending = None
                /\ run'.issued = <<Head(run'.queued)>>
                /\ pending' = Some(Head(run'.queued))
             \/ /\ last'.op = "on_translation_completed"
                /\ pending # None
                /\ Len(run'.issued) = Len(run.issued) + 1
                /\ SubSeq(run'.issued, 1, Len(run.issued)) = run.issued
                /\ pending' = Some(run'.issued[Len(run'.issued)])
       /\ (translation_table' # translation_table /\ last'.op = "on_translation_completed")
             => pending # None /\ pending[1] = run.issued[Len(run.issued)]
      ]_vars

\* a run of two calls has come to its end
C22_Witness ==
    /\ ~is_translating
    /\ pending = None
    /\ Len(run.issued) = 2
    /\ run.issued = run.queued

\* the row needs work: its original is not empty and its translation is
\* blank or the original
NeedsWork(r) ==
    /\ r.original # <<>>
    /\ (strip(r.translation) = <<>> \/ r.translation = r.original)

\* C23: translate_all_items and translate_selected_items queue rows that
\* need work only, translate_all_items all of them, and never a row that is
\* translated or carries the sentinel; with no such row nothing is issued.
C23_QueueHoldsRowsThatNeedWork ==
    [][last'.op \in {"translate_all_items", "translate_selected_items"} =>
          LET queue == IF is_translating' THEN run'.queued ELSE <<>>
              queued_rows == {queue[k].row : k \in 1..Len(queue)}
          IN /\ \A k \in 1..Len(queue) :
                   /\ NeedsWork(translation_table[queue[k].row])
                   /\ queue[k].text = translation_table[queue[k].row].original
             /\ last'.op = "translate_all_items" =>
                   queued_rows = {row \in 1..Len(translation_table) :
                                     NeedsWork(translation_table[row])}
             /\ \A row \in queued_rows :
                   /\ ~is_translated(translation_table[row])
                   /\ ~is_marked(translation_table[row])
             /\ queue = <<>> => (pending' = None /\ ~is_translating' /\ run' = run)
      ]_vars

\* C24: a completion callback for an item whose backend calls all failed
\* does not raise the translated count of update_translation_stats.
C24_FailedItemIsNotCounted ==
    [][(/\ last'.op = "on_translation_completed"
        /\ last'.ret
        /\ is_translating
        /\ run'.outs # <<>>
        /\ \A n \in 1..Len(run'.outs) : run'.outs[n] = <<>>) =>
          update_translation_stats(translation_entries').translated
              <= update_translation_stats(translation_entries).translated
      ]_vars

\* the backend returns its input unchanged in every call of the translate
EchoBackend ==
    \A n \in 1..Len(call.replies) :
        call.how[n] = "ok" /\ call.replies[n].body = "echo"

\* C25: translate of a text with tokens hands every non-empty plain run,
\* whitespace-only runs included, to the backend, and with a backend that
\* returns its input it returns the text itself if no token of the text is
\* a key of the corrections table.
C25_OnlyEmptyRunsAreDropped ==
    (/\ call.done
     /\ call.op \in {"TranslationAPI.translate", "TranslatorManager.translate"}
     /\ EchoBackend
     /\ \A k \in 1..Len(AllMatches(call.text, 1)) :
           AllMatches(call.text, 1)[k] \notin CorrectionKeys) =>
        /\ NextMatch(call.text, 1) # None => call.sent = PlainRuns(call.text)
        /\ call.result = call.text


\* C26: when export_translation or export_excel has written its file, the
\* file holds, for every row of the table, the translation the table shows:
\* writing the table into the store first would not change what was written.
C26_HandEditIsExported ==
    (last.ret /\ last.op \in {"save_xml", "export_to_excel"}) =>
        LET shown == UpdateXmlFromTable(translation_entries, id_to_entry_index,
                                        translation_table, 1)
        IN /\ last.op = "export_to_excel" => files[last.path] = ExportedSheet(shown)
           /\ last.op = "save_xml" =>
                 files[last.path] = XmlFile(Serialize(NewTree(xml_tree[1], shown)))

\* the positions of the entries of one type, in ascending order
RECURSIVE PositionsOfType(_, _, _)
PositionsOfType(entries, type, i) ==
    IF i > Len(entries) THEN <<>>
    ELSE (IF entries[i].type = type THEN <<i>> ELSE <<>>)
         \o PositionsOfType(entries, type, i + 1)

\* C27: the indices agree with the entry list: every key of the id index maps
\* to a position whose entry has that id, every entry's id is a key, and the
\* type index lists for each type exactly the positions of its entries, in
\* ascending order.
C27_IndicesAgreeWithEntries ==
    /\ \A key \in DOMAIN id_to_entry_index :
          /\ id_to_entry_index[key] \in 1..Len(translation_entries)
          /\ translation_entries[id_to_entry_index[key]].id = key
    /\ \A i \in 1..Len(translation_entries) :
          /\ translation_entries[i].id \in DOMAIN id_to_entry_index
          /\ translation_entries[i].type \in DOMAIN type_to_entries
    /\ \A type \in DOMAIN type_to_entries :
          type_to_entries[type] = PositionsOfType(translation_entries, type, 1)

\* what of the entries is fixed by the load: their number and order and each
\* entry's type, id and original
Frame(entries) ==
    [i \in 1..Len(entries) |-> <<entries[i].type, entries[i].id, entries[i].original>>]

\* C28: once a document is loaded, a step that is not a load_file leaves the
\* number and the order of the entries and every entry's type, id and
\* original as they were.
C28_OnlyTranslationsChange ==
    [][(xml_tree # None /\ last'.op # "load_file")
          => Frame(translation_entries') = Frame(translation_entries)]_vars

\* translate_selected has stored a result in a loaded entry
C28_Witness ==
    /\ xml_tree # None
    /\ last.op = "translate_selected"
    /\ \E i \in 1..Len(translation_entries) :
          /\ translation_entries[i].translation = S_y
          /\ translation_entries[i].original = S_Gun

\* the positions filter_entries returns with one of the two status flags set
StatusSide(translated_only) ==
    LET result == FilterResult(translation_entries, type_to_entries,
                               FilterParams(None, None, translated_only, None,
                                            ~translated_only))
    IN {result[k] : k \in 1..Len(result)}

\* C29: every entry is returned by exactly one of
\* filter_entries(translated_only=True) and filter_entries(untranslated_only=True),
\* and an entry whose translation starts with the sentinel is returned by the
\* first.
C29_StatusFiltersAreComplementary ==
    \A i \in 1..Len(translation_entries) :
        /\ (i \in StatusSide(TRUE)) # (i \in StatusSide(FALSE))
        /\ startswith(translation_entries[i].translation, Sentinel)
              => i \in StatusSide(TRUE)

\* filter_entries was called on a store with an entry that carries the
\* sentinel in a translation equal to its original, and one still to translate
C29_Witness ==
    /\ last.op = "filter_entries"
    /\ \E i, j \in 1..Len(translation_entries) :
          /\ startswith(translation_entries[i].translation, Sentinel)
          /\ translation_entries[i].translation = translation_entries[i].original
          /\ i \in StatusSide(TRUE)
          /\ translation_entries[j].translation = translation_entries[j].original
          /\ j \in StatusSide(FALSE)

\* C30: a translation_completed callback that reaches on_translation_completed
\* while the queue driver is not translating changes no table cell, no store
\* entry and nothing of the queue, and hands no text to the translator.
C30_IdleCallbackChangesNothing ==
    [][(last'.op = "on_translation_completed" /\ ~is_translating)
          => /\ UNCHANGED <<translation_table, translation_entries, translation_queue,
                            is_translating, stats, chart, files>>
             /\ pending' = None
             /\ run'.issued = run.issued]_vars

\* a connection test has failed, its callback has come and gone, and the
\* table shows a row whose original is the test text
C30_Witness ==
    /\ last.op = "on_translation_completed"
    /\ run.queued = <<>>
    /\ run.outs = <<(<<>>)>>
    /\ ~is_translating
    /\ pending = None
    /\ \E row \in 1..Len(translation_table) :
          /\ translation_table[row].original = TestText
          /\ translation_table[row].translation = TestText

====
